---- MODULE Spec2Model ----
(***************************************************************************)
(* A model of pyCellAnalyst's CellMech class (src/src/pyCellAnalyst/       *)
(* CellMech.py): the constructor's run over a reference and a deformed     *)
(* directory of STL surfaces (_readstls, _make3Dmesh, _getECMstrain,       *)
(* _deform) and the arithmetic of the two strain estimates; and of the     *)
(* Volume class (src/src/pyCellAnalyst/Volume.py): the constructor's       *)
(* choice of a segmentation, smoothRegion and thresholdSegmentation.       *)
(*                                                                         *)
(* Numbers.  The program computes in IEEE doubles; the model computes in   *)
(* exact rationals <<n, d>> (d > 0, lowest terms), so equalities of the    *)
(* model are the equalities the program reaches up to rounding.            *)
(***************************************************************************)
EXTENDS Integers, Sequences, FiniteSets, TLC

----------------------------------------------------------------------------
(* Exact rational arithmetic.                                              *)

IAbs(x) == IF x < 0 THEN -x ELSE x

RECURSIVE Gcd(_, _)
Gcd(a, b) == IF b = 0 THEN a ELSE Gcd(b, a % b)

\* the rational n/d in lowest terms with a positive denominator; a zero
\* denominator gives what the doubles give: <<0, 0>> is nan, <<1, 0>> and
\* <<-1, 0>> are +inf and -inf
Q(n, d) ==
    IF d = 0 THEN <<IF n > 0 THEN 1 ELSE IF n < 0 THEN -1 ELSE 0, 0>>
    ELSE LET g == Gcd(IAbs(n), IAbs(d))
             s == IF d < 0 THEN -1 ELSE 1
         IN  <<(s * n) \div g, (s * d) \div g>>

NaN == <<0, 0>>
QInt(n) == <<n, 1>>
QZero == <<0, 1>>
QOne == <<1, 1>>
QHalf == <<1, 2>>
QAdd(x, y) == Q(x[1] * y[2] + y[1] * x[2], x[2] * y[2])
QSub(x, y) == Q(x[1] * y[2] - y[1] * x[2], x[2] * y[2])
QMul(x, y) == Q(x[1] * y[1], x[2] * y[2])
QDiv(x, y) == Q(x[1] * y[2], x[2] * y[1])
QAbs(x) == <<IAbs(x[1]), x[2]>>
QLess(x, y) == x[1] * y[2] < y[1] * x[2]
QLeq(x, y) == x[1] * y[2] <= y[1] * x[2]

Dim == 1..3

\* tuples are built explicitly, so that every entry is computed once
T3(f(_)) == <<f(1), f(2), f(3)>>
T6(f(_)) == <<f(1), f(2), f(3), f(4), f(5), f(6)>>
T7(f(_)) == <<f(1), f(2), f(3), f(4), f(5), f(6), f(7)>>

\* sum of a sequence of rationals, left to right
RECURSIVE QSum(_)
QSum(s) == IF s = <<>> THEN QZero ELSE QAdd(s[1], QSum(Tail(s)))

VSub(u, v) == <<QSub(u[1], v[1]), QSub(u[2], v[2]), QSub(u[3], v[3])>>
VAdd(u, v) == <<QAdd(u[1], v[1]), QAdd(u[2], v[2]), QAdd(u[3], v[3])>>
VScale(c, v) == <<QMul(c, v[1]), QMul(c, v[2]), QMul(c, v[3])>>
Dot(u, v) == QAdd(QAdd(QMul(u[1], v[1]), QMul(u[2], v[2])), QMul(u[3], v[3]))
Cross(u, v) ==
    << QSub(QMul(u[2], v[3]), QMul(u[3], v[2])),
       QSub(QMul(u[3], v[1]), QMul(u[1], v[3])),
       QSub(QMul(u[1], v[2]), QMul(u[2], v[1])) >>
\* numpy.linalg.norm(v) ** 2
Norm2(v) == Dot(v, v)

\* a vector or matrix of integers as one of rationals
VInt(v) == <<QInt(v[1]), QInt(v[2]), QInt(v[3])>>
MInt(m) == <<VInt(m[1]), VInt(m[2]), VInt(m[3])>>
\* matrix times vector
MApply(m, v) == <<Dot(m[1], v), Dot(m[2], v), Dot(m[3], v)>>
Column(m, k) == <<m[1][k], m[2][k], m[3][k]>>
Transpose(m) == <<Column(m, 1), Column(m, 2), Column(m, 3)>>
\* numpy.dot(a, b) of two 3x3 matrices
MDot(a, b) ==
    LET row(j) == <<Dot(a[j], Column(b, 1)), Dot(a[j], Column(b, 2)), Dot(a[j], Column(b, 3))>>
    IN  T3(row)
\* numpy.eye(3)
Eye3 == <<<<QOne, QZero, QZero>>, <<QZero, QOne, QZero>>, <<QZero, QZero, QOne>>>>
ZeroTensor == <<<<QZero, QZero, QZero>>, <<QZero, QZero, QZero>>, <<QZero, QZero, QZero>>>>

----------------------------------------------------------------------------
(* The strain arithmetic of _deform and _getECMstrain.                     *)

\* the strain with np.dot(F, F) in place of np.dot(F.T, F)
CellStrain_NoTranspose(F) ==
    LET C == MDot(F, F)
        row(j) == << QMul(QHalf, QSub(C[j][1], Eye3[j][1])),
                     QMul(QHalf, QSub(C[j][2], Eye3[j][2])),
                     QMul(QHalf, QSub(C[j][3], Eye3[j][3])) >>
    IN  T3(row)

\* the strain without the factor 0.5
CellStrain_NoHalf(F) ==
    LET C == MDot(Transpose(F), F)
        row(j) == << QSub(C[j][1], Eye3[j][1]),
                     QSub(C[j][2], Eye3[j][2]),
                     QSub(C[j][3], Eye3[j][3]) >>
    IN  T3(row)

\* _deform: E = 0.5 * (np.dot(F.T, F) - np.eye(3))
CellStrain(F) ==
    LET C == MDot(Transpose(F), F)
        row(j) == << QMul(QHalf, QSub(C[j][1], Eye3[j][1])),
                     QMul(QHalf, QSub(C[j][2], Eye3[j][2])),
                     QMul(QHalf, QSub(C[j][3], Eye3[j][3])) >>
    IN  T3(row)

\* _getECMstrain: the six edge vectors of the tetrahedron with vertices P
\* (P[1..4] here are P[0..3] of the code): 1-0, 2-0, 3-0, 3-1, 3-2, 2-1
Edges(P) ==
    << VSub(P[2], P[1]), VSub(P[3], P[1]), VSub(P[4], P[1]),
       VSub(P[4], P[2]), VSub(P[4], P[3]), VSub(P[3], P[2]) >>

QTwo == <<2, 1>>
QFour == <<4, 1>>

\* the row with the factor 2 on the mixed terms as well
dXrow_MixedTwo(X) ==
    << QMul(QTwo, QMul(X[1], X[1])),
       QMul(QTwo, QMul(X[2], X[2])),
       QMul(QTwo, QMul(X[3], X[3])),
       QMul(QTwo, QMul(X[1], X[2])),
       QMul(QTwo, QMul(X[1], X[3])),
       QMul(QTwo, QMul(X[2], X[3])) >>

\* _getECMstrain: row i of dX from the reference edge X = X[i, :]
dXrow(X) ==
    << QMul(QTwo, QMul(X[1], X[1])),
       QMul(QTwo, QMul(X[2], X[2])),
       QMul(QTwo, QMul(X[3], X[3])),
       QMul(QFour, QMul(X[1], X[2])),
       QMul(QFour, QMul(X[1], X[3])),
       QMul(QFour, QMul(X[2], X[3])) >>

\* _getECMstrain: ds[i, 0] from the deformed edge x and the reference edge X
dsrow(x, X) == QSub(Norm2(x), Norm2(X))

Eqs == 1..6

\* what a call that raised returns in the model
Raised(e) == [raised |-> e]
LinAlgError == Raised("LinAlgError")

\* LAPACK gesv's pivot in column c of M: the row of c..6 with the largest
\* absolute value, the first of them on a tie
PivotRow(M, c) ==
    CHOOSE p \in c..6 :
        \A q \in c..6 :
            /\ QLeq(QAbs(M[q][c]), QAbs(M[p][c]))
            /\ (QAbs(M[q][c]) = QAbs(M[p][c]) => p <= q)

\* elimination with partial pivoting on the augmented 6x7 matrix M, from
\* column c on; LinAlgError when a column has no non-zero pivot
RECURSIVE Eliminate(_, _)
Eliminate(M, c) ==
    IF c > 6 THEN M
    ELSE LET p == PivotRow(M, c)
         IN  IF M[p][c] = QZero THEN LinAlgError
             ELSE LET piv == M[p][c]
                      prowAt(k) == QDiv(M[p][k], piv)
                      prow == T7(prowAt)
                      rowOf(r) == IF r = c THEN M[p] ELSE IF r = p THEN M[c] ELSE M[r]
                      newRow(r) ==
                          IF r = c THEN prow
                          ELSE LET old == rowOf(r)
                                   at(k) == QSub(old[k], QMul(old[c], prow[k]))
                               IN  T7(at)
                  IN  Eliminate(T6(newRow), c + 1)

\* np.linalg.solve(dX, ds): the solution vector, or LinAlgError (raised by
\* numpy for a singular matrix)
linalg_solve(dX, ds) ==
    LET aug(r) == <<dX[r][1], dX[r][2], dX[r][3], dX[r][4], dX[r][5], dX[r][6], ds[r]>>
        R == Eliminate(T6(aug), 1)
        sol(r) == R[r][7]
    IN  IF R = LinAlgError THEN LinAlgError ELSE T6(sol)

\* _getECMstrain: the 3x3 tensor from the six solved components
\* (E[0..5] of the code are E[1..6] here)
Reassemble(E) ==
    << <<E[1], E[4], E[5]>>,
       <<E[4], E[2], E[6]>>,
       <<E[5], E[6], E[3]>> >>

\* _getECMstrain from the selected tetrahedron on: P, p are its vertices
\* in the reference and the deformed state
SolveStrain(P, p) ==
    LET X == Edges(P)
        x == Edges(p)
        dXat(i) == dXrow(X[i])
        dsat(i) == dsrow(x[i], X[i])
        E == linalg_solve(T6(dXat), T6(dsat))
    IN  IF E = LinAlgError THEN LinAlgError ELSE Reassemble(E)

----------------------------------------------------------------------------
(* Bounds of the model.                                                    *)

\* STL files are named 1..MaxFiles ("cell01.stl", ...: the order of the
\* numbers is the lexicographic order of the names); 0 is a file that is
\* no STL file, and both directories hold it
MaxFiles == 4
\* entries of the applied deformation gradient range over -1..MaxF
MaxF == 2

----------------------------------------------------------------------------
(* What is on disk.  A scene fixes the contents of the STL files: the      *)
(* object named k sits at RefCentre(layout, k) in the reference state and  *)
(* at F.RefCentre + t in the deformed state.                               *)

None == <<>>

\* centres of the objects in the reference state: four points in general
\* position ("corner", "skew") or all in the plane z = 0 ("planar")
RefCentre(layout, k) ==
    LET j == ((k - 1) % 6) + 1
    IN  CASE layout = "corner" ->
               <<<<0, 0, 0>>, <<1, 0, 0>>, <<0, 1, 0>>, <<1, 1, 1>>, <<2, 1, 3>>, <<0, 2, 1>>>>[j]
          [] layout = "skew" ->
               <<<<0, 0, 0>>, <<2, 1, 0>>, <<1, 3, 1>>, <<-1, 1, 2>>, <<1, 1, 1>>, <<3, 0, 2>>>>[j]
          [] OTHER ->
               <<<<0, 0, 0>>, <<1, 0, 0>>, <<0, 1, 0>>, <<1, 1, 0>>, <<2, 1, 0>>, <<0, 2, 0>>>>[j]

Translation == <<1, -2, 3>>

\* where the object named k sits in a frame of the scene sc
Centre(sc, frame, k) ==
    LET c == VInt(RefCentre(sc.layout, k))
    IN  IF frame = "MATERIAL" THEN c
        ELSE VAdd(MApply(MInt(sc.F), c), VInt(Translation))

\* what TetGen returns for the surface of the object at c: one tetrahedron
\* with centroid c; points, elements and faces as MeshPy gives them (node
\* numbers start at 1)
TetAround(c) ==
    [points |-> << VAdd(c, VInt(<<3, -1, -1>>)), VAdd(c, VInt(<<-1, 3, -1>>)),
                   VAdd(c, VInt(<<-1, -1, 3>>)), VAdd(c, VInt(<<-1, -1, -1>>)) >>,
     elements |-> << <<1, 2, 3, 4>> >>,
     faces |-> << <<1, 2, 3>>, <<1, 2, 4>>, <<1, 3, 4>>, <<2, 3, 4>> >>]

\* the same tetrahedron g times as large in every direction
TetSized(c, g) ==
    [points |-> << VAdd(c, VInt(<<3 * g, -g, -g>>)), VAdd(c, VInt(<<-g, 3 * g, -g>>)),
                   VAdd(c, VInt(<<-g, -g, 3 * g>>)), VAdd(c, VInt(<<-g, -g, -g>>)) >>,
     elements |-> << <<1, 2, 3, 4>> >>,
     faces |-> << <<1, 2, 3>>, <<1, 2, 4>>, <<1, 3, 4>>, <<2, 3, 4>> >>]

\* mesh = build(s, ...) for the file fname of the state frame: the objects
\* of a scene with a size field have the size the scene gives the state
TetGenMesh(sc, frame, fname) ==
    IF "size" \in DOMAIN sc
    THEN TetSized(Centre(sc, frame, fname), sc.size[frame])
    ELSE TetAround(Centre(sc, frame, fname))

IntMatrices(lo, hi) == [Dim -> [Dim -> lo..hi]]
OffDiagonal(F) == {jk \in Dim \X Dim : jk[1] # jk[2] /\ F[jk[1]][jk[2]] # 0}
AsTuples(F) == <<<<F[1][1], F[1][2], F[1][3]>>, <<F[2][1], F[2][2], F[2][3]>>, <<F[3][1], F[3][2], F[3][3]>>>>
QuarterTurns ==
    { <<<<0, -1, 0>>, <<1, 0, 0>>, <<0, 0, 1>>>>,
      <<<<1, 0, 0>>, <<0, 0, -1>>, <<0, 1, 0>>>>,
      <<<<0, 0, 1>>, <<0, 1, 0>>, <<-1, 0, 0>>>> }
\* deformation gradients of the strain scenes: a diagonal and at most one
\* off-diagonal entry in -1..MaxF, and the quarter turns about the axes
FSet ==
    {AsTuples(F) : F \in {G \in IntMatrices(-1, MaxF) : Cardinality(OffDiagonal(G)) <= 1}}
        \cup QuarterTurns
\* deformation gradients of the scenes of a whole run: none, a stretch of
\* x by two with a shear
RunF ==
    { <<<<1, 0, 0>>, <<0, 1, 0>>, <<0, 0, 1>>>>,
      <<<<2, 1, 0>>, <<0, 1, 0>>, <<0, 0, 1>>>> }

RunScenes ==
    { [layout |-> "corner", F |-> <<<<1, 0, 0>>, <<0, 1, 0>>, <<0, 0, 1>>>>],
      [layout |-> "skew", F |-> <<<<2, 1, 0>>, <<0, 1, 0>>, <<0, 0, 1>>>>],
      [layout |-> "planar", F |-> <<<<2, 1, 0>>, <<0, 1, 0>>, <<0, 0, 1>>>>] }
StrainScenes == [layout : {"corner", "skew"}, F : FSet]

----------------------------------------------------------------------------
(* _make3Dmesh: volume and centroid of a tetrahedral mesh.                 *)

\* the four corners n1..n4 of element e
Corner(nodes, e, a) == nodes[e[a]]

\* (n1 + n2 + n3 + n4) / 4.0
TetraCent(nodes, e) ==
    VScale(Q(1, 4), VAdd(VAdd(Corner(nodes, e, 1), Corner(nodes, e, 2)),
                         VAdd(Corner(nodes, e, 3), Corner(nodes, e, 4))))

\* einsum(e1, cross(e2, e3)) / 6.0 with e1 = n4 - n1, e2 = n3 - n1,
\* e3 = n2 - n1: the volume with the sign of the vertex order
SignedVol(nodes, e) ==
    LET e1 == VSub(Corner(nodes, e, 4), Corner(nodes, e, 1))
        e2 == VSub(Corner(nodes, e, 3), Corner(nodes, e, 1))
        e3 == VSub(Corner(nodes, e, 2), Corner(nodes, e, 1))
    IN  QDiv(Dot(e1, Cross(e2, e3)), QInt(6))

\* the volume without tetraVols = np.abs(tetraVols.ravel())
TetraVol_Signed(nodes, e) == SignedVol(nodes, e)

\* tetraVols = np.abs(tetraVols.ravel()), for one element
TetraVol(nodes, e) == QAbs(SignedVol(nodes, e))

RECURSIVE TetraVols(_, _)
TetraVols(nodes, elements) ==
    IF elements = <<>> THEN <<>>
    ELSE <<TetraVol(nodes, Head(elements))>> \o TetraVols(nodes, Tail(elements))

\* np.sum(tetraVols[:, None] / totalVol * tetraCents, axis=0)
RECURSIVE WeightedCents(_, _, _)
WeightedCents(nodes, elements, totalVol) ==
    IF elements = <<>> THEN <<QZero, QZero, QZero>>
    ELSE VAdd(VScale(QDiv(TetraVol(nodes, Head(elements)), totalVol),
                     TetraCent(nodes, Head(elements))),
              WeightedCents(nodes, Tail(elements), totalVol))

\* s_nodes = list(np.unique(np.ravel(faces))): the node numbers of the
\* faces, ascending, each once
RECURSIVE SortSet(_)
SortSet(S) ==
    IF S = {} THEN <<>>
    ELSE LET m == CHOOSE x \in S : \A y \in S : x <= y
         IN  <<m>> \o SortSet(S \ {m})

SurfaceNodes(faces) == SortSet({faces[f][a] : f \in DOMAIN faces, a \in 1..3})

\* tetraCents -= centroid: the centroid of element e relative to centroid
RelCent(nodes, e, centroid) == VSub(TetraCent(nodes, e), centroid)

\* the row without I *= tetraVols[:, None]
InertiaRow_Unweighted(nodes, e, centroid) ==
    LET c == VSub(TetraCent(nodes, e), centroid)
        zero == QZero
    IN  << QAdd(QMul(c[2], c[2]), QMul(c[3], c[3])),
           QSub(zero, QMul(c[1], c[2])),
           QSub(zero, QMul(c[1], c[3])),
           QAdd(QMul(c[1], c[1]), QMul(c[3], c[3])),
           QSub(zero, QMul(c[2], c[3])),
           QAdd(QMul(c[1], c[1]), QMul(c[2], c[2])) >>

\* row e of I after I *= tetraVols[:, None]: the six components
\* yy + zz, -xy, -xz, xx + zz, -yz, xx + yy of the element, times its volume
InertiaRow(nodes, e, centroid) ==
    LET c == RelCent(nodes, e, centroid)
        v == TetraVol(nodes, e)
        zero == QZero
    IN  << QMul(v, QAdd(QMul(c[2], c[2]), QMul(c[3], c[3]))),
           QMul(v, QSub(zero, QMul(c[1], c[2]))),
           QMul(v, QSub(zero, QMul(c[1], c[3]))),
           QMul(v, QAdd(QMul(c[1], c[1]), QMul(c[3], c[3]))),
           QMul(v, QSub(zero, QMul(c[2], c[3]))),
           QMul(v, QAdd(QMul(c[1], c[1]), QMul(c[2], c[2]))) >>

\* I = np.sum(I, axis=0)
RECURSIVE InertiaSum(_, _, _)
InertiaSum(nodes, elements, centroid) ==
    IF elements = <<>> THEN <<QZero, QZero, QZero, QZero, QZero, QZero>>
    ELSE LET a == InertiaRow(nodes, Head(elements), centroid)
             b == InertiaSum(nodes, Tail(elements), centroid)
             sum(k) == QAdd(a[k], b[k])
         IN  T6(sum)

\* I = np.array([[I[0], I[1], I[2]], [I[1], I[3], I[4]], [I[2], I[4], I[5]]])
InertiaTensor(I) == <<<<I[1], I[2], I[3]>>, <<I[2], I[4], I[5]>>, <<I[3], I[5], I[6]>>>>

\* no entry of the matrix is nan or infinite
MFinite(m) == \A j, k \in Dim : m[j][k][2] # 0

\* ascending order of three rationals (w = w[np.argsort(w)])
Sort3(w) ==
    LET lo == IF QLeq(w[1], w[2]) /\ QLeq(w[1], w[3]) THEN 1
              ELSE IF QLeq(w[2], w[3]) THEN 2 ELSE 3
        hi == IF lo # 3 /\ QLeq(w[1], w[3]) /\ QLeq(w[2], w[3]) THEN 3
              ELSE IF lo # 2 /\ QLeq(w[1], w[2]) THEN 2
              ELSE IF lo # 1 THEN 1 ELSE 2
        mid == 6 - lo - hi
    IN  <<w[lo], w[mid], w[hi]>>

\* the rounding of the eigenvalues np.linalg.eigh returns is an input of
\* the model: eigenvalue k comes out as its exact value times
\* 1 + err[k] * EighUlp (a zero eigenvalue of a zero row stays zero)
EighUlp == Q(1, 16)
NoRounding == <<0, 0, 0>>
EighRoundings == {<<0, 0, 0>>, <<0, -1, 1>>, <<0, 1, -1>>, <<1, 1, 1>>}
Rounded(x, e) == QMul(x, QAdd(QOne, QMul(QInt(e), EighUlp)))

\* w of w, v = np.linalg.eigh(I), sorted: for a matrix with nan entries
\* LAPACK either does not converge (LinAlgError) or returns nan; the
\* matrices of the model are diagonal, and their eigenvalues are the
\* diagonal entries within rounding
eigh(I, err, converged) ==
    IF ~MFinite(I)
    THEN IF converged THEN <<NaN, NaN, NaN>> ELSE LinAlgError
    ELSE Sort3(<< Rounded(I[1][1], err[1]), Rounded(I[2][2], err[2]),
                  Rounded(I[3][3], err[3]) >>)

\* the positive root of x, kept as the number it is the root of; the
\* root of nan is nan
Root(x) == [root |-> x]

\* np.sqrt(x): nan (with a RuntimeWarning) for a negative x and for nan
np_sqrt(x) ==
    IF x[2] = 0 /\ x[1] <= 0 THEN Root(NaN)
    ELSE IF QLess(x, QZero) THEN Root(NaN) ELSE Root(x)

\* [r_major, r_middle, r_minor] from the sorted eigenvalues w
Radii(w, totalVol) ==
    LET five == QInt(5)
        den == QMul(QTwo, totalVol)
    IN  << np_sqrt(QDiv(QMul(five, QSub(QAdd(w[2], w[3]), w[1])), den)),
           np_sqrt(QDiv(QMul(five, QAdd(QSub(w[1], w[2]), w[3])), den)),
           np_sqrt(QDiv(QMul(five, QSub(QAdd(w[1], w[2]), w[3])), den)) >>

\* what _make3Dmesh computes from the mesh TetGen built, when eigh rounds
\* by err; the result is Raised(...) when eigh raises
Make3Dmesh(mesh, err, converged) ==
    LET totalVol == QSum(TetraVols(mesh.points, mesh.elements))
        centroid == WeightedCents(mesh.points, mesh.elements, totalVol)
        I == InertiaTensor(InertiaSum(mesh.points, mesh.elements, centroid))
        w == eigh(I, err, converged)
    IN  IF w = LinAlgError THEN LinAlgError
        ELSE [totalVol |-> totalVol,
              centroid |-> centroid,
              inertia |-> I,
              axes |-> Radii(w, totalVol),
              elements |-> mesh.elements,
              nodes |-> mesh.points,
              s_nodes |-> SurfaceNodes(mesh.faces)]

\* _make3Dmesh on a mesh whose inertia tensor eigh returns exactly (the one
\* tetrahedron of TetAround: its tensor is the zero matrix)
MassProperties(mesh) == Make3Dmesh(mesh, NoRounding, TRUE)

----------------------------------------------------------------------------
(* _getECMstrain: the tessellation of the reference centroids and the      *)
(* choice of its best cell.  vtkDelaunay3D is computed by its definition   *)
(* (the tetrahedra whose circumsphere holds no other point); the values of *)
(* vtkMeshQuality are inputs.                                              *)

Det3(u, v, w) == Dot(u, Cross(v, w))

\* the circumcentre of the tetrahedron a, b, c, d (not degenerate)
Circumcentre(a, b, c, d) ==
    LET u == VSub(b, a)
        v == VSub(c, a)
        w == VSub(d, a)
        num == VAdd(VAdd(VScale(Norm2(u), Cross(v, w)), VScale(Norm2(v), Cross(w, u))),
                    VScale(Norm2(w), Cross(u, v)))
    IN  VAdd(a, VScale(QDiv(QOne, QMul(QTwo, Det3(u, v, w))), num))

IsDelaunayCell(rc, cell) ==
    LET a == rc[cell[1]]
        b == rc[cell[2]]
        c == rc[cell[3]]
        d == rc[cell[4]]
    IN  /\ Det3(VSub(b, a), VSub(c, a), VSub(d, a)) # QZero
        /\ LET o == Circumcentre(a, b, c, d)
               r2 == Norm2(VSub(a, o))
           IN  \A e \in DOMAIN rc :
                   e \in {cell[1], cell[2], cell[3], cell[4]} \/ ~QLess(Norm2(VSub(rc[e], o)), r2)

CellLess(x, y) ==
    \E k \in 1..4 : x[k] < y[k] /\ \A j \in 1..(k - 1) : x[j] = y[j]

RECURSIVE SortCells(_)
SortCells(S) ==
    IF S = {} THEN <<>>
    ELSE LET m == CHOOSE x \in S : \A y \in S : x = y \/ CellLess(x, y)
         IN  <<m>> \o SortCells(S \ {m})

\* tet.GetOutput() of vtkDelaunay3D over the points rc: its cells, each the
\* four point numbers (from 1 here, from 0 in the code)
Delaunay3D(rc) ==
    LET n == Len(rc)
        all == {cell \in (1..n) \X (1..n) \X (1..n) \X (1..n) :
                    cell[1] < cell[2] /\ cell[2] < cell[3] /\ cell[3] < cell[4]}
    IN  SortCells({cell \in all : IsDelaunayCell(rc, cell)})

\* values vtkMeshQuality may give a cell
QualityValues == {<<1, 1>>, <<2, 1>>}

\* abs(mq - 1.0) without the abs
AbsDev_Signed(mq) == [k \in DOMAIN mq |-> QSub(mq[k], QOne)]

\* abs(mq - 1.0), element by element
AbsDev(mq) == [k \in DOMAIN mq |-> QAbs(QSub(mq[k], QOne))]

\* the scan of numpy's argmin over a from index k on: best is the index of
\* the least value met so far, replaced only by a strictly smaller one
RECURSIVE argmin_from(_, _, _)
argmin_from(a, k, best) ==
    IF k > Len(a) THEN best
    ELSE argmin_from(a, k + 1, IF QLess(a[k], a[best]) THEN k ELSE best)

\* np.argmin(abs(mq - 1.0)) (indices from 1 here); numpy raises ValueError
\* for an empty array, which is 0 here
argmin_abs(mq) ==
    IF mq = <<>> THEN 0
    ELSE argmin_from(AbsDev(mq), 2, 1)

\* rc.shape[0] < 4
TooFewObjects(rc) == Len(rc) < 4

\* _getECMstrain from its inputs: the centroid lists, the cells of the
\* tessellation and their quality array mq.  The result is what the call leaves in
\* ecm_strain, or the exception it raises
ECMstrain(rc, dc, cells, mq, before) ==
    IF TooFewObjects(rc) THEN before
    ELSE LET btet == argmin_abs(mq)
         IN  IF btet = 0 THEN before
             ELSE LET idlist == cells[btet]
                  IN  IF \E i \in 1..4 : idlist[i] > Len(dc) THEN Raised("IndexError")
                      ELSE LET P == <<rc[idlist[1]], rc[idlist[2]], rc[idlist[3]], rc[idlist[4]]>>
                               pp == <<dc[idlist[1]], dc[idlist[2]], dc[idlist[3]], dc[idlist[4]]>>
                           IN  SolveStrain(P, pp)

----------------------------------------------------------------------------
(* The state of a CellMech object under construction.                      *)

VARIABLES
    ref_dir,          \* os.listdir(self._ref_dir): the names in the directory
    def_dir,          \* os.listdir(self._def_dir)
    scene,            \* the contents of the STL files (see Centre)
    rigidInitial,     \* the constructor's flags
    deformable,
    saveFEA,
    display,
    attrs,            \* the names of the attributes the object has
    rsurfs, dsurfs, rmeshes, rcentroids, dcentroids,
    cell_strains, ecm_strain, rvols, dvols, raxes, daxes,
    vstrains,         \* the list self.vstrains, if the object has the attribute
    cell_fields, rigidTransforms,
    _elements, _nodes, _snodes, _bcs,
    written,          \* the files written into def_dir, in order
    pc,               \* where the constructor is: "readref", "readdef", "check",
                      \* "ecm", "deform"; "done" once it returned, "raised"
                      \* once an exception left it
    exc,              \* the exception that left it, or "none"
    todo,             \* the file names the running loop of _readstls has left
    ecm_sel,          \* the locals of _getECMstrain: cells, mq, btet
    icp,              \* the matrix the fit of each object ended with, in order
    loc,              \* the locals of the method that is running, or None
    trace,            \* the steps taken so far, in order
    volume            \* the Volume object: its arguments, its attributes and
                      \* the locals of its running method; None if there is none

vars == <<ref_dir, def_dir, scene, rigidInitial, deformable, saveFEA, display,
          attrs, rsurfs, dsurfs, rmeshes, rcentroids, dcentroids, cell_strains,
          ecm_strain, rvols, dvols, raxes, daxes, vstrains, cell_fields,
          rigidTransforms, _elements, _nodes, _snodes, _bcs, written, pc, exc,
          todo, ecm_sel, icp, loc, trace, volume>>

\* the lists _readstls and _make3Dmesh fill
readVars == <<rsurfs, dsurfs, rmeshes, rcentroids, dcentroids, rvols, dvols,
              raxes, daxes, _elements, _nodes, _snodes>>
\* the lists the steps after _readstls fill
laterVars == <<cell_strains, vstrains, cell_fields, rigidTransforms, _bcs, written,
               icp, loc>>
inputVars == <<ref_dir, def_dir, scene, rigidInitial, deformable, saveFEA, display,
               attrs>>

\* '.stl' in fname.lower()
IsStl(fname) == fname # 0

\* sorted(os.listdir(d))
sorted(d) == SortSet(d)

StlNames(d) == {f \in d : IsStl(f)}

\* the attributes with self.vstrains = [] among them
InitAttrs_WithVstrains ==
    {"_ref_dir", "_def_dir", "rigidInitial", "display", "deformable", "saveFEA",
     "deformableSettings", "rsurfs", "dsurfs", "rmeshes", "rcentroids",
     "dcentroids", "cell_strains", "ecm_strain", "rvols", "dvols", "raxes",
     "daxes", "cell_fields", "rigidTransforms", "_elements", "_nodes",
     "_snodes", "_bcs", "vstrains"}

\* the attributes __init__ assigns before it calls _readstls
InitAttrs ==
    {"_ref_dir", "_def_dir", "rigidInitial", "display", "deformable", "saveFEA",
     "deformableSettings", "rsurfs", "dsurfs", "rmeshes", "rcentroids",
     "dcentroids", "cell_strains", "ecm_strain", "rvols", "dvols", "raxes",
     "daxes", "cell_fields", "rigidTransforms", "_elements", "_nodes",
     "_snodes", "_bcs"}

\* self.ecm_strain = np.zeros((3, 3))
ecm_strain_init_Zeros == ZeroTensor

\* self.ecm_strain = None
ecm_strain_init == None

\* _deform called before _getECMstrain
StepAfterCheck_DeformFirst == "deform"

\* __init__: the calls after _readstls and the check of rsurfs, in order
StepAfterCheck == "ecm"
StepAfterECM == "deform"

\* the lists and fields __init__ has made when it calls _readstls
InitLists ==
    /\ rsurfs = <<>> /\ dsurfs = <<>> /\ rmeshes = <<>>
    /\ rcentroids = <<>> /\ dcentroids = <<>>
    /\ cell_strains = <<>> /\ ecm_strain = ecm_strain_init
    /\ rvols = <<>> /\ dvols = <<>>
    /\ raxes = <<>> /\ daxes = <<>>
    /\ vstrains = <<>>
    /\ cell_fields = <<>> /\ rigidTransforms = <<>>
    /\ _elements = <<>> /\ _nodes = <<>> /\ _snodes = <<>> /\ _bcs = <<>>
    /\ written = <<>>
    /\ exc = "none"
    /\ ecm_sel = None
    /\ icp = <<>>
    /\ loc = None

InitFields ==
    /\ attrs = InitAttrs
    /\ InitLists

\* the directories of a run: any names in the reference directory, and a
\* deformed directory that holds the same names, or one name more, or one
\* name less, or one name in place of another
Dirs == {{0} \cup S : S \in SUBSET (1..MaxFiles)}
DefDirs(ref) == {d \in Dirs : Cardinality(d \ ref) <= 1 /\ Cardinality(ref \ d) <= 1}

Init ==
    /\ volume = None
    /\ ref_dir \in Dirs
    /\ def_dir \in DefDirs(ref_dir)
    /\ scene \in RunScenes
    /\ rigidInitial \in BOOLEAN
    /\ deformable \in BOOLEAN
    /\ saveFEA \in BOOLEAN
    /\ display \in BOOLEAN
    /\ InitFields
    /\ pc = "readref"
    /\ todo = sorted(ref_dir)
    /\ trace = <<"_readstls">>

----------------------------------------------------------------------------
(* _readstls, one file of a loop at a time, with its call of _make3Dmesh.  *)

Surface(frame, fname) == [frame |-> frame, file |-> fname]

\* the vtkUnstructuredGrid _make3Dmesh builds from the nodes and elements
VtkMesh(mp) == [points |-> mp.nodes, cells |-> mp.elements]

\* the error of build swallowed: the loop goes on from where it is
OnBuildError_Swallowed(at) == at

\* mesh = build(s, ...) raises: nothing in _make3Dmesh, _readstls or
\* __init__ catches it, and the run ends there
OnBuildError(at) == "raised"

\* the loop over the reference directory takes a file: no STL file is
\* skipped; an STL file is read, appended to rsurfs and meshed.  built is
\* whether TetGen returns a mesh (MeshPy raises otherwise)
ReadRefFile ==
    /\ pc = "readref" /\ todo # <<>>
    /\ LET fname == Head(todo)
       IN  IF ~IsStl(fname)
           THEN /\ todo' = Tail(todo)
                /\ UNCHANGED <<readVars, pc, exc, trace>>
           ELSE \E built \in BOOLEAN :
                    /\ rsurfs' = Append(rsurfs, Surface("MATERIAL", fname))
                    /\ IF built
                       THEN \E mp \in {MassProperties(TetGenMesh(scene, "MATERIAL", fname))} :
                                /\ rmeshes' = Append(rmeshes, VtkMesh(mp))
                                /\ _snodes' = Append(_snodes, mp.s_nodes)
                                /\ _elements' = Append(_elements, mp.elements)
                                /\ _nodes' = Append(_nodes, mp.nodes)
                                /\ raxes' = Append(raxes, mp.axes)
                                /\ rcentroids' = Append(rcentroids, mp.centroid)
                                /\ rvols' = Append(rvols, mp.totalVol)
                                /\ todo' = Tail(todo)
                                /\ trace' = trace \o <<"load", "tetgen", "mass">>
                                /\ UNCHANGED <<pc, exc>>
                       ELSE /\ pc' = OnBuildError(pc)
                            /\ exc' = "MeshError"
                            /\ trace' = trace \o <<"load", "tetgen">>
                            /\ UNCHANGED <<rmeshes, _snodes, _elements, _nodes, raxes,
                                           rcentroids, rvols, todo>>
                    /\ UNCHANGED <<dsurfs, dcentroids, dvols, daxes>>
    /\ UNCHANGED <<volume, inputVars, laterVars, ecm_strain, ecm_sel>>

\* the first loop is over: the second starts
ReadRefDone ==
    /\ pc = "readref" /\ todo = <<>>
    /\ pc' = "readdef"
    /\ todo' = sorted(def_dir)
    /\ UNCHANGED <<volume, inputVars, readVars, laterVars, ecm_strain, ecm_sel, exc, trace>>

\* the loop over the deformed directory takes a file
ReadDefFile ==
    /\ pc = "readdef" /\ todo # <<>>
    /\ LET fname == Head(todo)
       IN  IF ~IsStl(fname)
           THEN /\ todo' = Tail(todo)
                /\ UNCHANGED <<readVars, pc, exc, trace>>
           ELSE \E built \in BOOLEAN :
                    /\ dsurfs' = Append(dsurfs, Surface("SPATIAL", fname))
                    /\ IF built
                       THEN \E mp \in {MassProperties(TetGenMesh(scene, "SPATIAL", fname))} :
                                /\ daxes' = Append(daxes, mp.axes)
                                /\ dcentroids' = Append(dcentroids, mp.centroid)
                                /\ dvols' = Append(dvols, mp.totalVol)
                                /\ todo' = Tail(todo)
                                /\ trace' = trace \o <<"load", "tetgen", "mass">>
                                /\ UNCHANGED <<pc, exc>>
                       ELSE /\ pc' = OnBuildError(pc)
                            /\ exc' = "MeshError"
                            /\ trace' = trace \o <<"load", "tetgen">>
                            /\ UNCHANGED <<daxes, dcentroids, dvols, todo>>
                    /\ UNCHANGED <<rsurfs, rmeshes, _snodes, _elements, _nodes, raxes,
                                   rcentroids, rvols>>
    /\ UNCHANGED <<volume, inputVars, laterVars, ecm_strain, ecm_sel>>

\* _readstls returns
ReadDefDone ==
    /\ pc = "readdef" /\ todo = <<>>
    /\ pc' = "check"
    /\ UNCHANGED <<volume, inputVars, readVars, laterVars, ecm_strain, ecm_sel, exc, todo, trace>>

\* the check left out
NoSurfaces_Never(rs) == FALSE

\* not(self.rsurfs)
NoSurfaces(rs) == rs = <<>>

\* __init__: if not(self.rsurfs): raise Exception(...)
CheckSurfaces ==
    /\ pc = "check"
    /\ IF NoSurfaces(rsurfs)
       THEN pc' = "raised" /\ exc' = "Exception"
       ELSE pc' = StepAfterCheck /\ exc' = exc
    /\ UNCHANGED <<volume, inputVars, readVars, laterVars, ecm_strain, ecm_sel, todo, trace>>

----------------------------------------------------------------------------
(* _getECMstrain, whole.                                                   *)

\* _getECMstrain when vtkMeshQuality gives every cell one of values
getECMstrainOver(values) ==
    /\ pc = "ecm"
    /\ \E cells \in {IF TooFewObjects(rcentroids) THEN <<>> ELSE Delaunay3D(rcentroids)} :
       \E mq \in [DOMAIN cells -> values] :
       \E r \in {ECMstrain(rcentroids, dcentroids, cells, mq, ecm_strain)} :
           /\ ecm_sel' = [cells |-> cells, mq |-> mq, btet |-> argmin_abs(mq)]
           /\ IF r = LinAlgError \/ r = Raised("IndexError")
              THEN /\ pc' = "raised"
                   /\ exc' = r.raised
                   /\ UNCHANGED ecm_strain
              ELSE /\ ecm_strain' = r
                   /\ pc' = StepAfterECM
                   /\ UNCHANGED exc
    /\ trace' = Append(trace, "_getECMstrain")
    /\ UNCHANGED <<volume, inputVars, readVars, laterVars, todo>>

getECMstrain == getECMstrainOver(QualityValues)

----------------------------------------------------------------------------
(* _deform and what __init__ does after it.                                *)

\* the matrices vtkIterativeClosestPointTransform may end with (inputs of
\* the model)
ICPMatrices == {MInt(F) : F \in RunF}

\* a fit's matrix together with the strain line 239 computes from it
ICPFits == {[M |-> m, E |-> CellStrain(m)] : m \in ICPMatrices}

\* the rigid transform the first fit of object i ends with
RigidOf(i) == [rigid |-> i]

\* the ratio of the volumes without the - 1
VolumetricStrain_NoOffset(dvol, rvol) == QDiv(dvol, rvol)

\* self.dvols[i] / self.rvols[i] - 1 (line 200), in numpy float division:
\* a zero reference volume gives inf or nan, not an exception
VolumetricStrain(dvol, rvol) == QSub(QDiv(dvol, rvol), QOne)

\* the loop of _deform from object i on; fits[i] is the matrix the fit of
\* object i ends with.  acc holds the three lists and the exception raised
RECURSIVE DeformLoop(_, _, _)
DeformLoop(i, fits, acc) ==
    IF i > Len(rcentroids) THEN acc
    ELSE IF "vstrains" \notin attrs THEN [acc EXCEPT !.raised = "AttributeError"]
    ELSE IF i > Len(dvols) THEN [acc EXCEPT !.raised = "IndexError"]
    ELSE LET vs == Append(acc.vstrains, VolumetricStrain(dvols[i], rvols[i]))
         IN  IF i > Len(dsurfs) THEN [acc EXCEPT !.vstrains = vs, !.raised = "IndexError"]
             ELSE DeformLoop(i + 1, fits,
                     [vstrains |-> vs,
                      rigidTransforms |-> IF rigidInitial
                                          THEN Append(acc.rigidTransforms, RigidOf(i))
                                          ELSE acc.rigidTransforms,
                      cell_strains |-> Append(acc.cell_strains, CellStrain(fits[i])),
                      raised |-> "none"])

\* the displacement field deformableRegistration interpolates to the mesh
\* of object r in its call number call
Field(r, call) ==
    [object |-> r, call |-> call, transformed |-> rigidInitial, over |-> "rmeshes"]

\* the field interpolated to the surface rpoly when the window is shown
ProbedField_Surface(r, call, shown) ==
    IF shown THEN [Field(r, call) EXCEPT !.over = "rpoly"] ELSE Field(r, call)

\* field = probe.GetOutput(): with display a second filter, probe2, probes
\* the same source over rpoly, and its output goes to animate alone
ProbedField(r, call, shown) == Field(r, call)

\* bcs of deformableRegistration: the displacement of the field at point
\* node - 1 for every node of _snodes[r]
BoundaryDisplacements(r, field) ==
    [j \in DOMAIN _snodes[r] |-> [field |-> field, point |-> _snodes[r][j] - 1]]

\* the loop of deformableRegistration from object r on, over the rigid
\* transforms rt
RECURSIVE RegistrationLoop(_, _, _, _)
RegistrationLoop(r, call, rt, acc) ==
    IF r > Len(rmeshes) THEN acc
    ELSE IF r > Len(dsurfs) \/ (rigidInitial /\ r > Len(rt))
         THEN [acc EXCEPT !.raised = "IndexError"]
    ELSE LET fields == Append(acc.cell_fields, ProbedField(r, call, display))
         IN  RegistrationLoop(r + 1, call, rt,
                [cell_fields |-> fields,
                 bcs |-> IF saveFEA
                         THEN Append(acc.bcs, BoundaryDisplacements(r, ProbedField(r, call, display)))
                         ELSE acc.bcs,
                 written |-> Append(acc.written,
                                    [name |-> <<"cell.vtu", r>>, content |-> fields[r]]),
                 raised |-> "none"])

\* __init__: for i, bc in enumerate(self._bcs): pickle.dump(fea, fid)
RECURSIVE SaveFEALoop(_, _, _)
SaveFEALoop(i, bcs, out) ==
    IF i > Len(bcs) THEN out
    ELSE SaveFEALoop(i + 1, bcs,
             Append(out, [name |-> <<"cellFEA.pkl", i - 1>>,
                          content |-> [nodes |-> _nodes[i], elements |-> _elements[i],
                                       surfaces |-> _snodes[i], bc |-> bcs[i]]]))

RECURSIVE DeformEvents(_)
DeformEvents(n) == IF n = 0 THEN <<>> ELSE DeformEvents(n - 1) \o <<"register", "cellstrain">>

\* __init__ from its call of _deform on: _deform, then
\* deformableRegistration if deformable, then the FEA files if saveFEA
deform_onward ==
    /\ pc = "deform"
    /\ IF rcentroids # <<>> /\ "vstrains" \notin attrs
       THEN /\ pc' = "raised"
            /\ exc' = "AttributeError"
            /\ trace' = Append(trace, "_deform")
            /\ UNCHANGED laterVars
       ELSE \E fits \in [DOMAIN rcentroids -> ICPMatrices] :
                LET d == DeformLoop(1, fits, [vstrains |-> vstrains,
                                             rigidTransforms |-> rigidTransforms,
                                             cell_strains |-> cell_strains,
                                             raised |-> "none"])
                    g == IF deformable /\ d.raised = "none"
                         THEN RegistrationLoop(1, 1, d.rigidTransforms,
                                  [cell_fields |-> cell_fields, bcs |-> _bcs,
                                   written |-> written, raised |-> "none"])
                         ELSE [cell_fields |-> cell_fields, bcs |-> _bcs,
                               written |-> written, raised |-> "none"]
                    failed == d.raised # "none" \/ g.raised # "none"
                IN  /\ vstrains' = d.vstrains
                    /\ icp' = SubSeq(fits, 1, Len(d.cell_strains))
                    /\ rigidTransforms' = d.rigidTransforms
                    /\ cell_strains' = d.cell_strains
                    /\ cell_fields' = g.cell_fields
                    /\ _bcs' = g.bcs
                    /\ written' = IF saveFEA /\ ~failed
                                  THEN SaveFEALoop(1, g.bcs, g.written)
                                  ELSE g.written
                    /\ pc' = IF failed THEN "raised" ELSE "done"
                    /\ exc' = IF d.raised # "none" THEN d.raised ELSE g.raised
                    /\ trace' = trace \o <<"_deform">> \o DeformEvents(Len(d.cell_strains))
                                      \o (IF deformable /\ d.raised = "none"
                                          THEN <<"deformableRegistration">> ELSE <<>>)
                    /\ UNCHANGED loc
    /\ UNCHANGED <<volume, inputVars, readVars, ecm_strain, ecm_sel, todo>>

Next ==
    \/ ReadRefFile
    \/ ReadRefDone
    \/ ReadDefFile
    \/ ReadDefDone
    \/ CheckSurfaces
    \/ getECMstrain
    \/ deform_onward

Spec == Init /\ [][Next]_vars

----------------------------------------------------------------------------
(* The strain arithmetic on its own: the constructor at its call of        *)
(* _getECMstrain, over four objects whose deformed centroids are the       *)
(* images of the reference centroids under every F of FSet, and the        *)
(* strain lines of _deform applied to a fit that ends with that F.         *)

RECURSIVE ReadAll(_, _, _)
ReadAll(sc, frame, names) ==
    IF names = <<>> THEN <<>>
    ELSE <<MassProperties(TetAround(Centre(sc, frame, Head(names))))>>
             \o ReadAll(sc, frame, Tail(names))

RECURSIVE ReadEvents(_)
ReadEvents(n) == IF n = 0 THEN <<>> ELSE ReadEvents(n - 1) \o <<"load", "tetgen", "mass">>

StrainInit ==
    /\ volume = None
    /\ scene \in StrainScenes
    /\ ref_dir = 0..4
    /\ def_dir = 0..4
    /\ rigidInitial = TRUE /\ deformable = FALSE /\ saveFEA = FALSE /\ display = FALSE
    /\ attrs = InitAttrs
    /\ \E rm \in {ReadAll(scene, "MATERIAL", <<1, 2, 3, 4>>)} :
       \E dm \in {ReadAll(scene, "SPATIAL", <<1, 2, 3, 4>>)} :
           /\ rsurfs = [i \in 1..4 |-> Surface("MATERIAL", i)]
           /\ dsurfs = [i \in 1..4 |-> Surface("SPATIAL", i)]
           /\ rmeshes = [i \in 1..4 |-> VtkMesh(rm[i])]
           /\ _snodes = [i \in 1..4 |-> rm[i].s_nodes]
           /\ _elements = [i \in 1..4 |-> rm[i].elements]
           /\ _nodes = [i \in 1..4 |-> rm[i].nodes]
           /\ rcentroids = [i \in 1..4 |-> rm[i].centroid]
           /\ rvols = [i \in 1..4 |-> rm[i].totalVol]
           /\ raxes = [i \in 1..4 |-> rm[i].axes]
           /\ daxes = [i \in 1..4 |-> dm[i].axes]
           /\ dcentroids = [i \in 1..4 |-> dm[i].centroid]
           /\ dvols = [i \in 1..4 |-> dm[i].totalVol]
    /\ cell_strains = <<>> /\ ecm_strain = ecm_strain_init /\ vstrains = <<>>
    /\ cell_fields = <<>> /\ rigidTransforms = <<>> /\ _bcs = <<>> /\ written = <<>>
    /\ exc = "none" /\ ecm_sel = None /\ icp = <<>> /\ loc = None
    /\ pc = "ecm"
    /\ todo = <<>>
    /\ trace = <<"_readstls">> \o ReadEvents(8)

\* _deform, its lines from F = np.zeros((3, 3)) to cell_strains.append(E),
\* for the next object, on a fit that ends with the applied F
fit_strain ==
    /\ pc = "deform"
    /\ Len(cell_strains) < Len(rcentroids)
    /\ icp' = Append(icp, MInt(scene.F))
    /\ cell_strains' = Append(cell_strains, CellStrain(MInt(scene.F)))
    /\ UNCHANGED <<volume, inputVars, readVars, ecm_strain, vstrains, cell_fields, rigidTransforms,
                   _bcs, written, pc, exc, todo, ecm_sel, loc, trace>>

StrainNext ==
    \/ getECMstrain
    \/ fit_strain

SpecStrain == StrainInit /\ [][StrainNext]_vars

----------------------------------------------------------------------------
(* _getECMstrain on its own: the constructor has read four to six objects  *)
(* of the "corner" layout (one, three or four cells in the tessellation),  *)
(* and vtkMeshQuality rates the cells with values on both sides of 1.      *)

\* the quality values are the halves up to MaxQ / 2
MaxQ == 4

MeshQualities == {Q(k, 2) : k \in 1..MaxQ}

QualityInit ==
    /\ volume = None
    /\ scene \in {[layout |-> "corner", F |-> F] : F \in RunF}
    /\ \E n \in 4..6 :
           /\ ref_dir = 0..n
           /\ def_dir = 0..n
           /\ \E rm \in {ReadAll(scene, "MATERIAL", [i \in 1..n |-> i])} :
              \E dm \in {ReadAll(scene, "SPATIAL", [i \in 1..n |-> i])} :
                  /\ rsurfs = [i \in 1..n |-> Surface("MATERIAL", i)]
                  /\ dsurfs = [i \in 1..n |-> Surface("SPATIAL", i)]
                  /\ rmeshes = [i \in 1..n |-> VtkMesh(rm[i])]
                  /\ _snodes = [i \in 1..n |-> rm[i].s_nodes]
                  /\ _elements = [i \in 1..n |-> rm[i].elements]
                  /\ _nodes = [i \in 1..n |-> rm[i].nodes]
                  /\ rcentroids = [i \in 1..n |-> rm[i].centroid]
                  /\ rvols = [i \in 1..n |-> rm[i].totalVol]
                  /\ raxes = [i \in 1..n |-> rm[i].axes]
                  /\ daxes = [i \in 1..n |-> dm[i].axes]
                  /\ dcentroids = [i \in 1..n |-> dm[i].centroid]
                  /\ dvols = [i \in 1..n |-> dm[i].totalVol]
           /\ trace = <<"_readstls">> \o ReadEvents(2 * n)
    /\ rigidInitial = TRUE /\ deformable = FALSE /\ saveFEA = FALSE /\ display = FALSE
    /\ attrs = InitAttrs
    /\ cell_strains = <<>> /\ ecm_strain = ecm_strain_init /\ vstrains = <<>>
    /\ cell_fields = <<>> /\ rigidTransforms = <<>> /\ _bcs = <<>> /\ written = <<>>
    /\ exc = "none" /\ ecm_sel = None /\ icp = <<>> /\ loc = None
    /\ pc = "ecm"
    /\ todo = <<>>

\* _getECMstrain() of line 127 with the cells rated by MeshQualities
rate_cells == getECMstrainOver(MeshQualities)

QualityNext == rate_cells

SpecQuality == QualityInit /\ [][QualityNext]_vars

----------------------------------------------------------------------------
(* The methods step by step.  _deform stops at its first statement in      *)
(* every run of the constructor above, because no statement of the class   *)
(* gives the object its vstrains attribute; the statements after it, and   *)
(* deformableRegistration, run only on an object that got the attribute    *)
(* from outside the class (a subclass that declares it).  The runs below   *)
(* are the constructor's over at most MaxObjects files a directory, on an  *)
(* object with or without the attribute, with _deform, the fits of         *)
(* vtkIterativeClosestPointTransform, deformableRegistration and animate   *)
(* taken a step at a time.                                                 *)

\* STL files a directory of these runs holds at most
MaxObjects == 2
\* stands for the 5000 of ICP.SetMaximumNumberOfIterations(5000)
MaxIterations == 3

\* the attributes of an object of a subclass that declares vstrains
SubclassAttrs == InitAttrs \cup {"vstrains"}

SmallDirs == {0..n : n \in 0..MaxObjects}

\* the objects keep their size, grow or shrink between the two states
MethodScenes ==
    { [layout |-> "skew", F |-> <<<<2, 1, 0>>, <<0, 1, 0>>, <<0, 0, 1>>>>, size |-> sz] :
          sz \in { [MATERIAL |-> 1, SPATIAL |-> 1], [MATERIAL |-> 1, SPATIAL |-> 2],
                   [MATERIAL |-> 2, SPATIAL |-> 1] } }

MethodsInit ==
    /\ volume = None
    /\ ref_dir \in SmallDirs
    /\ def_dir \in SmallDirs
    /\ scene \in MethodScenes
    /\ rigidInitial \in BOOLEAN
    /\ deformable \in BOOLEAN
    /\ saveFEA \in BOOLEAN
    /\ display \in BOOLEAN
    /\ attrs \in {InitAttrs, SubclassAttrs}
    /\ InitLists
    /\ pc = "readref"
    /\ todo = sorted(ref_dir)
    /\ trace = <<"_readstls">>

\* vtkPolyData(): an empty surface
EmptyPolyData == [frame |-> "none", file |-> 0]

\* dst.DeepCopy(src) the wrong way round: src.DeepCopy(dst)
DeepCopy_Reversed(dst, src) == [dst |-> dst, src |-> dst]

\* dst.DeepCopy(src): what the two objects hold after the call
DeepCopy(dst, src) == [dst |-> src, src |-> src]

\* the output of vtkTransformPolyDataFilter / vtkTransformFilter on obj
\* with the transform trans: a new object
Transformed(obj, trans) == [of |-> obj, by |-> trans]

\* the fit that never looks at the number of iterations
FitEnds_NoCap(n, close) == close

\* vtkIterativeClosestPointTransform, after iteration n: the fit ends when
\* n reached MaximumNumberOfIterations, or when the mean distance is
\* checked and is at most MaximumMeanDistance (close)
FitEnds(n, close) == n >= MaxIterations \/ close

\* the loop that takes the same object again
NextIndex_Repeat(i) == i

\* for i in xrange(...), for r, mesh in enumerate(...): the next object
NextIndex(i) == i + 1

Raise(e) ==
    /\ pc' = "raised"
    /\ exc' = e

\* __init__ calls _deform
deform_call ==
    /\ pc = "deform" /\ loc = None
    /\ loc' = [stage |-> "top", i |-> 1]
    /\ trace' = Append(trace, "_deform")
    /\ UNCHANGED <<volume, inputVars, readVars, cell_strains, vstrains, cell_fields, rigidTransforms,
                   _bcs, written, icp, ecm_strain, ecm_sel, pc, exc, todo>>

\* _deform at the top of its loop: it returns after the last object;
\* else it appends the volumetric strain, copies the two surfaces and sets
\* the first fit up (lines 198-214, 228-232)
deform_top ==
    /\ pc = "deform" /\ loc # None /\ loc.stage = "top"
    /\ LET i == loc.i
       IN  IF i > Len(rcentroids)
           THEN /\ pc' = IF deformable THEN "registration" ELSE "save"
                /\ loc' = None
                /\ UNCHANGED <<vstrains, rsurfs, dsurfs, exc>>
           ELSE IF "vstrains" \notin attrs
           THEN /\ Raise("AttributeError")
                /\ UNCHANGED <<vstrains, rsurfs, dsurfs, loc>>
           ELSE IF i > Len(dvols)
           THEN /\ Raise("IndexError")
                /\ UNCHANGED <<vstrains, rsurfs, dsurfs, loc>>
           ELSE /\ vstrains' = Append(vstrains, VolumetricStrain(dvols[i], rvols[i]))
                /\ LET rc == DeepCopy(EmptyPolyData, rsurfs[i])
                       dc == DeepCopy(EmptyPolyData, dsurfs[i])
                   IN  /\ rsurfs' = [rsurfs EXCEPT ![i] = rc.src]
                       /\ dsurfs' = [dsurfs EXCEPT ![i] = dc.src]
                       /\ loc' = [stage |-> "fit", i |-> i,
                                  mode |-> IF rigidInitial THEN "rigid" ELSE "affine",
                                  iters |-> 0, source |-> rc.dst, target |-> dc.dst]
                /\ UNCHANGED <<pc, exc>>
    /\ UNCHANGED <<volume, inputVars, rmeshes, rcentroids, dcentroids, rvols, dvols, raxes, daxes,
                   _elements, _nodes, _snodes, cell_strains, cell_fields, rigidTransforms,
                   _bcs, written, icp, ecm_strain, ecm_sel, todo, trace>>

\* one iteration of the running fit (ICP.Update()).  When the rigid fit
\* ends its transform is stored and the affine fit starts on the
\* transformed copy (lines 216-226); when the affine fit ends with the
\* matrix M the strain is stored (lines 235-240)
icp_iterate ==
    /\ pc = "deform" /\ loc # None /\ loc.stage = "fit"
    /\ loc.iters <= MaxIterations
    /\ \E close \in BOOLEAN :
           LET n == loc.iters + 1
           IN  IF ~FitEnds(n, close)
               THEN /\ loc' = [loc EXCEPT !.iters = n]
                    /\ UNCHANGED <<rigidTransforms, cell_strains, icp, trace>>
               ELSE IF loc.mode = "rigid"
               THEN /\ rigidTransforms' = Append(rigidTransforms, RigidOf(loc.i))
                    /\ loc' = [loc EXCEPT !.mode = "affine", !.iters = 0,
                                          !.source = Transformed(loc.source, RigidOf(loc.i))]
                    /\ UNCHANGED <<cell_strains, icp, trace>>
               ELSE \E fit \in ICPFits :
                        /\ cell_strains' = Append(cell_strains, fit.E)
                        /\ icp' = Append(icp, fit.M)
                        /\ loc' = [stage |-> "top", i |-> NextIndex(loc.i)]
                        /\ trace' = trace \o <<"register", "cellstrain">>
                        /\ UNCHANGED rigidTransforms
    /\ UNCHANGED <<volume, inputVars, readVars, vstrains, cell_fields, _bcs, written, ecm_strain,
                   ecm_sel, pc, exc, todo>>

\* __init__ calls deformableRegistration
registration_call ==
    /\ pc = "registration" /\ loc = None
    /\ loc' = [stage |-> "top", r |-> 1]
    /\ trace' = Append(trace, "deformableRegistration")
    /\ UNCHANGED <<volume, inputVars, readVars, cell_strains, vstrains, cell_fields, rigidTransforms,
                   _bcs, written, icp, ecm_strain, ecm_sel, pc, exc, todo>>

\* calls of deformableRegistration on one object at most
MaxCalls == 2

\* the number of the running call of deformableRegistration on this object:
\* nothing in the method empties cell_fields, so what a call finds there
\* is what the calls before it appended
CallNumber == Cardinality({i \in DOMAIN trace : trace[i] = "deformableRegistration"})

\* idWriter.SetInputData(self.cell_fields[r]): entry r of the whole list
WrittenField(fields, r) == fields[r]

\* where deformableRegistration returns to: the constructor, which goes on
\* to the FEA files, or the user who called the method on the object
ReturnTo == IF \E i \in DOMAIN trace : trace[i] = "user" THEN "done" ELSE "save"

\* what deformableRegistration stores and writes for object r on its call
\* number call, when the display flag is shown
RegisterResult(r, call, shown, fields) ==
    LET field == ProbedField(r, call, shown)
        all == Append(fields, field)
    IN  [field |-> field,
         bcs |-> BoundaryDisplacements(r, field),
         file |-> [name |-> <<"cell.vtu", r>>, content |-> WrittenField(all, r)]]

\* deformableRegistration at the top of its loop over rmeshes: _poly2img
\* (a copy of rsurfs[r], transformed if rigidInitial, and dsurfs[r]
\* itself), the registration, the field, the boundary displacements and
\* the .vtu file of object r (lines 251-344)
register_object ==
    /\ pc = "registration" /\ loc # None /\ loc.stage = "top"
    /\ LET r == loc.r
       IN  IF r > Len(rmeshes)
           THEN /\ pc' = ReturnTo
                /\ loc' = None
                /\ UNCHANGED <<rsurfs, cell_fields, _bcs, written, exc>>
           ELSE IF r > Len(rsurfs) \/ r > Len(dsurfs) \/ (rigidInitial /\ r > Len(rigidTransforms))
           THEN /\ Raise("IndexError")
                /\ UNCHANGED <<rsurfs, cell_fields, _bcs, written, loc>>
           ELSE LET rpoly == DeepCopy(EmptyPolyData, rsurfs[r])
                    res == RegisterResult(r, CallNumber, display, cell_fields)
                IN  /\ rsurfs' = [rsurfs EXCEPT ![r] = rpoly.src]
                    /\ cell_fields' = Append(cell_fields, res.field)
                    /\ _bcs' = IF saveFEA THEN Append(_bcs, res.bcs) ELSE _bcs
                    /\ written' = Append(written, res.file)
                    /\ loc' = IF display
                              THEN [stage |-> "animate", r |-> r,
                                    pd |-> [object |-> r, call |-> CallNumber, transformed |-> "rpoly"]]
                              ELSE [stage |-> "top", r |-> NextIndex(r)]
                    /\ UNCHANGED <<pc, exc>>
    /\ UNCHANGED <<volume, inputVars, dsurfs, rmeshes, rcentroids, dcentroids, rvols, dvols, raxes,
                   daxes, _elements, _nodes, _snodes, cell_strains, vstrains, rigidTransforms,
                   icp, ecm_strain, ecm_sel, todo, trace>>

\* animate: the window of object r is up (iren.Start()) until the user
\* closes it; if UP was pressed the frames were saved under def_dir
animate ==
    /\ pc = "registration" /\ loc # None /\ loc.stage = "animate"
    /\ \E up \in BOOLEAN :
           written' = IF up
                      THEN Append(written, [name |-> <<"frame.png", loc.r>>, content |-> loc.pd])
                      ELSE written
    /\ loc' = [stage |-> "top", r |-> NextIndex(loc.r)]
    /\ UNCHANGED <<volume, inputVars, readVars, cell_strains, vstrains, cell_fields, rigidTransforms,
                   _bcs, icp, ecm_strain, ecm_sel, pc, exc, todo, trace>>

\* __init__, its last lines: the FEA files if saveFEA (lines 133-144)
save_fea ==
    /\ pc = "save"
    /\ written' = IF saveFEA THEN SaveFEALoop(1, _bcs, written) ELSE written
    /\ pc' = "done"
    /\ UNCHANGED <<volume, inputVars, readVars, cell_strains, vstrains, cell_fields, rigidTransforms,
                   _bcs, icp, loc, ecm_strain, ecm_sel, exc, todo, trace>>

DeformSteps ==
    \/ deform_call
    \/ deform_top
    \/ icp_iterate

MethodsNext ==
    \/ ReadRefFile
    \/ ReadRefDone
    \/ ReadDefFile
    \/ ReadDefDone
    \/ CheckSurfaces
    \/ getECMstrain
    \/ DeformSteps
    \/ registration_call
    \/ register_object
    \/ animate
    \/ save_fea

SpecMethods == MethodsInit /\ [][MethodsNext]_vars

\* _deform goes on while it has a next statement
FairMethods == SpecMethods /\ WF_vars(DeformSteps)

\* the constructor on one scene, on an object that has every attribute,
\* and then the calls of deformableRegistration the user makes on it
CallsInit ==
    /\ MethodsInit
    /\ scene.size = [MATERIAL |-> 1, SPATIAL |-> 1]
    /\ attrs = SubclassAttrs

\* the user calls deformableRegistration() on the constructed object
user_call ==
    /\ pc = "done" /\ CallNumber < MaxCalls
    /\ pc' = "registration"
    /\ trace' = Append(trace, "user")
    /\ UNCHANGED <<volume, inputVars, readVars, cell_strains, vstrains, cell_fields, rigidTransforms,
                   _bcs, written, icp, loc, ecm_strain, ecm_sel, exc, todo>>

CallsNext ==
    \/ MethodsNext
    \/ user_call

SpecCalls == CallsInit /\ [][CallsNext]_vars

----------------------------------------------------------------------------
(* _make3Dmesh on its own: one call on a mesh TetGen may return, over      *)
(* tetrahedra of two sizes in a row along the x axis and two tetrahedra    *)
(* without volume.                                                         *)

\* elements of a mesh at most
MaxElems == 2

MeshNodes ==
    << VInt(<<0, 0, 0>>), VInt(<<1, 0, 0>>), VInt(<<0, 1, 0>>), VInt(<<0, 0, 1>>),
       VInt(<<2, 0, 0>>), VInt(<<3, 0, 0>>), VInt(<<2, 1, 0>>), VInt(<<2, 0, 1>>),
       VInt(<<4, 0, 0>>), VInt(<<6, 0, 0>>), VInt(<<4, 1, 0>>), VInt(<<4, 0, 1>>) >>

\* two tetrahedra of volume 1/6, one of volume 1/3, one with its four
\* nodes in a plane, one with them on a line, and the second tetrahedron
\* with two of its vertices exchanged (the other orientation)
TetChoices ==
    { <<1, 2, 3, 4>>, <<5, 6, 7, 8>>, <<9, 10, 11, 12>>, <<1, 2, 3, 7>>, <<1, 2, 5, 6>>,
      <<6, 5, 7, 8>> }

RECURSIVE FacesOf(_)
FacesOf(elements) ==
    IF elements = <<>> THEN <<>>
    ELSE LET e == Head(elements)
         IN  << <<e[1], e[2], e[3]>>, <<e[1], e[2], e[4]>>, <<e[1], e[3], e[4]>>,
                <<e[2], e[3], e[4]>> >> \o FacesOf(Tail(elements))

MeshOf(elements) == [points |-> MeshNodes, elements |-> elements, faces |-> FacesOf(elements)]

Meshes == {MeshOf(es) : es \in UNION {[1..n -> TetChoices] : n \in 1..MaxElems}}

\* _readstls about to load the one STL file of the run: it is in the
\* reference directory, or in the deformed one (the first loop is over)
MeshInit ==
    /\ volume = None
    /\ \/ ref_dir = {1} /\ def_dir = {} /\ pc = "readref"
       \/ ref_dir = {} /\ def_dir = {1} /\ pc = "readdef"
    /\ scene = [layout |-> "corner", F |-> <<<<1, 0, 0>>, <<0, 1, 0>>, <<0, 0, 1>>>>]
    /\ rigidInitial = TRUE /\ deformable = FALSE /\ saveFEA = FALSE /\ display = FALSE
    /\ InitFields
    /\ todo = <<1>>
    /\ trace = <<"_readstls">>

\* _make3Dmesh(filename, frame), called by _readstls for the file it has
\* just loaded, on the mesh TetGen returns for it
make3Dmesh ==
    /\ pc \in {"readref", "readdef"} /\ todo # <<>>
    /\ \E mesh \in Meshes, err \in EighRoundings, converged \in BOOLEAN :
       \E mp \in {Make3Dmesh(mesh, err, converged)} :
           /\ loc' = [mesh |-> mesh, err |-> err,
                      inertia |-> IF mp = LinAlgError THEN None ELSE mp.inertia]
           /\ IF mp = LinAlgError
              THEN /\ Raise("LinAlgError")
                   /\ trace' = trace \o <<"load", "tetgen">>
                   /\ UNCHANGED <<rmeshes, _snodes, _elements, _nodes, raxes, rcentroids, rvols,
                                  daxes, dcentroids, dvols, todo, rsurfs, dsurfs>>
              ELSE /\ trace' = trace \o <<"load", "tetgen", "mass">>
                   /\ IF pc = "readref"
                      THEN /\ rsurfs' = Append(rsurfs, Surface("MATERIAL", Head(todo)))
                           /\ rmeshes' = Append(rmeshes, VtkMesh(mp))
                           /\ _snodes' = Append(_snodes, mp.s_nodes)
                           /\ _elements' = Append(_elements, mp.elements)
                           /\ _nodes' = Append(_nodes, mp.nodes)
                           /\ raxes' = Append(raxes, mp.axes)
                           /\ rcentroids' = Append(rcentroids, mp.centroid)
                           /\ rvols' = Append(rvols, mp.totalVol)
                           /\ todo' = Tail(todo)
                           /\ UNCHANGED <<dsurfs, daxes, dcentroids, dvols, pc, exc>>
                      ELSE /\ dsurfs' = Append(dsurfs, Surface("SPATIAL", Head(todo)))
                           /\ daxes' = Append(daxes, mp.axes)
                           /\ dcentroids' = Append(dcentroids, mp.centroid)
                           /\ dvols' = Append(dvols, mp.totalVol)
                           /\ todo' = Tail(todo)
                           /\ UNCHANGED <<rsurfs, rmeshes, _snodes, _elements, _nodes, raxes,
                                          rcentroids, rvols, pc, exc>>
    /\ UNCHANGED <<volume, inputVars, cell_strains, vstrains, cell_fields, rigidTransforms, _bcs,
                   written, icp, ecm_strain, ecm_sel>>

MeshNext == make3Dmesh

SpecMesh == MeshInit /\ [][MeshNext]_vars

----------------------------------------------------------------------------
(* The Volume class (src/src/pyCellAnalyst/Volume.py): the constructor's   *)
(* choice of a segmentation, smoothRegion, and thresholdSegmentation with  *)
(* its adaptive loop, on one 2D image of Size x Size pixels that is its    *)
(* own region of interest (regions=None).  The filters of SimpleITK the    *)
(* loop runs on the binary image (opening, hole filling, connected         *)
(* components, label shapes) are computed by their definitions; the        *)
(* outputs of the smoothing filters, of the histogram threshold filters    *)
(* and of the active contours are inputs.  Thresholds are exact rationals; *)
(* the program's are doubles.                                              *)

\* pixels along an edge of the image
Size == 5

Pixels == (0 .. Size - 1) \X (0 .. Size - 1)

Block(lo, hi) == {p \in Pixels : p[1] \in lo .. hi /\ p[2] \in lo .. hi}

Painted(obj, bright, dim) == [p \in Pixels |-> IF p \in obj THEN bright ELSE dim]

\* the images of the model: a black image, a bright object in the middle
\* of a dim ground, a bright object in the low corner and one in the high
\* corner of a black ground
Images ==
    { Painted({}, 0, 0),
      Painted(Block(1, Size - 2), 100, 50),
      Painted(Block(0, 2), 100, 0),
      Painted(Block(Size - 3, Size - 1), 100, 0) }

\* x <= y for rationals, of which one may be as large as 1e7
QLeqWide(x, y) ==
    \/ (x[1] \div x[2]) < (y[1] \div y[2])
    \/ /\ (x[1] \div x[2]) = (y[1] \div y[2])
       /\ (x[1] % x[2]) * y[2] <= (y[1] % y[2]) * x[2]

\* int(x) of Python: towards zero
IntOf(x) == IF x[1] >= 0 THEN x[1] \div x[2] ELSE 0 - ((0 - x[1]) \div x[2])

\* the upper threshold 1e7 of the calls of BinaryThreshold
Huge == <<10000000, 1>>

\* _getMinMax(img)[1]
GetMaximum(img) == CHOOSE v \in {img[p] : p \in Pixels} : \A q \in Pixels : img[q] <= v

\* sitk.BinaryThreshold(img, lower, upper): the pixels with lower <= value
\* <= upper; the filter raises if lower is above upper
BinaryThreshold(img, lower, upper) ==
    IF ~QLeqWide(lower, upper) THEN Raised("RuntimeError")
    ELSE [pixels |-> {p \in Pixels : QLeqWide(lower, QInt(img[p])) /\ QLeqWide(QInt(img[p]), upper)}]

\* the histogram threshold filters: pixels up to the threshold get the
\* inside value, which is 1 unless the stain is 'Foreground'
HistogramThreshold(img, thr, stain) ==
    IF stain = "Foreground"
    THEN {p \in Pixels : img[p] > thr}
    ELSE {p \in Pixels : img[p] <= thr}

Shifted(p, dx, dy) == <<p[1] + dx, p[2] + dy>>

\* the ball of radius 1 is the 3 x 3 square around the pixel
Kernel(p) == {Shifted(p, dx, dy) : dx \in -1 .. 1, dy \in -1 .. 1}

\* erosion, with what is outside the image taken for foreground
Erode(S) == {p \in S : Kernel(p) \cap Pixels \subseteq S}

Dilate(S) == {p \in Pixels : Kernel(p) \cap S # {}}

\* sitk.BinaryMorphologicalOpening(seg, 1)
BinaryMorphologicalOpening(S) == Dilate(Erode(S))

\* face neighbours
Adjacent(p, q) ==
    \/ p[1] = q[1] /\ (p[2] = q[2] + 1 \/ q[2] = p[2] + 1)
    \/ p[2] = q[2] /\ (p[1] = q[1] + 1 \/ q[1] = p[1] + 1)

\* the pixels of S connected to the pixels of seen
RECURSIVE Flood(_, _)
Flood(S, seen) ==
    LET more == {p \in S \ seen : \E q \in seen : Adjacent(p, q)}
    IN  IF more = {} THEN seen ELSE Flood(S, seen \cup more)

OnBorder(p) == p[1] \in {0, Size - 1} \/ p[2] \in {0, Size - 1}

\* sitk.BinaryFillhole: the background that does not reach the border
\* becomes foreground
BinaryFillhole(S) ==
    LET bg == Pixels \ S
    IN  Pixels \ Flood(bg, {p \in bg : OnBorder(p)})

Raster(p) == p[2] * Size + p[1]

\* sitk.ConnectedComponent: the objects, labelled in raster order
RECURSIVE ConnectedComponent(_)
ConnectedComponent(S) ==
    IF S = {} THEN <<>>
    ELSE LET first == CHOOSE p \in S : \A q \in S : Raster(p) <= Raster(q)
             obj == Flood(S, {first})
         IN  <<obj>> \o ConnectedComponent(S \ obj)

\* ls.GetBoundingBox(l): start and size along x and y
BoundingBox(obj) ==
    LET xs == {p[1] : p \in obj}
        ys == {p[2] : p \in obj}
        lox == CHOOSE v \in xs : \A w \in xs : v <= w
        hix == CHOOSE v \in xs : \A w \in xs : v >= w
        loy == CHOOSE v \in ys : \A w \in ys : v <= w
        hiy == CHOOSE v \in ys : \A w \in ys : v >= w
    IN  <<lox, loy, hix - lox + 1, hiy - loy + 1>>

\* _getLabelShape, the entries the loop reads
getLabelShape(r) ==
    [volume |-> [l \in DOMAIN r |-> Cardinality(r[l])],
     bounding_box |-> [l \in DOMAIN r |-> BoundingBox(r[l])]]

\* np.argmax(a) + 1: the first label of the largest volume; 0 stands for
\* the ValueError of an empty list
argmax(a) ==
    IF a = <<>> THEN 0
    ELSE CHOOSE l \in DOMAIN a :
             /\ \A m \in DOMAIN a : a[m] <= a[l]
             /\ \A m \in 1 .. l - 1 : a[m] < a[l]

\* np.any(np.intersect1d(a, b)): a common value that is not 0
AnyIntersect(a, b) == \E v \in {a[1], a[2]} \cap {b[1], b[2]} : v # 0

\* opening, hole filling, components, the largest one and its bounds
\* (lines 415-426, and 441-447 without the bounds)
Measure(seg, fillholes) ==
    LET opened == BinaryMorphologicalOpening(seg)
        filled == IF fillholes THEN BinaryFillhole(opened) ELSE opened
        r == ConnectedComponent(filled)
        labelstats == getLabelShape(r)
        label == argmax(labelstats.volume)
    IN  IF label = 0 THEN Raised("ValueError")
        ELSE LET bb == labelstats.bounding_box[label]
             IN  [seg |-> filled, r |-> r, label |-> label, bb |-> bb,
                  label_bounds |-> << <<bb[1], bb[1] + bb[3]>>, <<bb[2], bb[2] + bb[4]>> >>]

\* the binary images a threshold can cut out of the images of the model
SegSets ==
    {{}} \cup UNION {{{p \in Pixels : img[p] >= img[q]} : q \in Pixels} : img \in Images}
         \cup UNION {{{p \in Pixels : img[p] <= img[q]} : q \in Pixels} : img \in Images}

\* Measure over these binary images, worked out once
Measures == {[seg |-> s, fillholes |-> f, m |-> Measure(s, f)] : s \in SegSets, f \in BOOLEAN}

Measured(seg, fillholes) ==
    IF seg \in SegSets
    THEN (CHOOSE e \in Measures : e.seg = seg /\ e.fillholes = fillholes).m
    ELSE Measure(seg, fillholes)

\* the dictionaries of defaults of smoothRegion
DefaultParameters(method) ==
    CASE method = "Gaussian" -> [k \in {"sigma"} |-> "0.5"]
      [] method = "Median" -> [k \in {"radius"} |-> "(1,1,1)"]
      [] method = "Curvature Diffusion" ->
             [k \in {"iterations", "conductance"} |-> IF k = "iterations" THEN "10" ELSE "9"]
      [] method = "Gradient Diffusion" ->
             [k \in {"iterations", "conductance", "time step"} |->
                 CASE k = "iterations" -> "10" [] k = "conductance" -> "9" [] OTHER -> "0.01"]
      [] method = "Bilateral" ->
             [k \in {"domainSigma", "rangeSigma", "samples"} |->
                 CASE k = "domainSigma" -> "1.5" [] k = "rangeSigma" -> "10.0" [] OTHER -> "100"]
      [] method = "Patch-based" ->
             [k \in {"radius", "iterations", "patches", "noise model"} |->
                 CASE k = "radius" -> "4" [] k = "iterations" -> "10"
                   [] k = "patches" -> "20" [] OTHER -> "poisson"]
      [] OTHER -> [k \in {} |-> "0"]

SmoothingMethods ==
    {"None", "Gaussian", "Median", "Curvature Diffusion", "Gradient Diffusion", "Bilateral",
     "Patch-based"}

\* noise_models
noise_models == [k \in {"nomodel", "gaussian", "rician", "poisson"} |->
                    CASE k = "nomodel" -> "0" [] k = "gaussian" -> "1"
                      [] k = "rician" -> "2" [] OTHER -> "3"]

\* try: parameters[p] = self.smoothing_parameters[p]  except: raise
\* SystemExit(...): the assignment stores any key; only the look-up of the
\* noise model can raise
StoreParameter(method, parameters, p, value) ==
    IF method = "Patch-based" /\ p = "noise model"
    THEN IF value \in DOMAIN noise_models
         THEN [k \in DOMAIN parameters \cup {p} |-> IF k = p THEN noise_models[value] ELSE parameters[k]]
         ELSE Raised("SystemExit: not a parameter")
    ELSE [k \in DOMAIN parameters \cup {p} |-> IF k = p THEN value ELSE parameters[k]]

IsRaised(x) == DOMAIN x = {"raised"}

\* for p in self.smoothing_parameters.keys(): ...
RECURSIVE ParameterLoop(_, _, _, _)
ParameterLoop(method, parameters, sp, keys) ==
    IF keys = {} THEN parameters
    ELSE LET p == CHOOSE k \in keys : TRUE
             stored == StoreParameter(method, parameters, p, sp[p])
         IN  IF IsRaised(stored) THEN stored
             ELSE ParameterLoop(method, stored, sp, keys \ {p})

\* smoothRegion up to the call of the filter: the parameters the filter
\* gets, or what is raised (lines 205-281); the noise model has to be a
\* number of noise_models by then
SmoothParameters(method, sp) ==
    IF method = "None" THEN DefaultParameters(method)
    ELSE IF method \notin SmoothingMethods THEN Raised("SystemExit: not a supported smoothing method")
    ELSE LET parameters == ParameterLoop(method, DefaultParameters(method), sp, DOMAIN sp)
         IN  IF IsRaised(parameters) THEN parameters
             ELSE IF method = "Patch-based" /\ parameters["noise model"] \in DOMAIN noise_models
             THEN Raised("TypeError")
             ELSE parameters

\* the methods thresholdSegmentation knows besides 'Percentage'
HistogramMethods ==
    {"Otsu", "Huang", "IsoData", "Li", "MaxEntropy", "KittlerIllingworth", "Moments", "Yen",
     "RenyiEntropy", "Shanbhag"}

\* the arguments the runs of the model are made with
Segmentations == {"Threshold", "Entropy", "Geodesic", "EdgeFree", "User", "Watershed"}
Stains == {"Foreground", "Background", "Both"}
SmoothingChoices ==
    { [method |-> "None", parameters |-> [k \in {} |-> "0"]],
      [method |-> "Gaussian", parameters |-> [k \in {"sigma"} |-> "1.0"]],
      [method |-> "Gaussian", parameters |-> [k \in {"sigm"} |-> "1.0"]],
      [method |-> "Patch-based", parameters |-> [k \in {"noise model"} |-> "gaussian"]],
      [method |-> "Patch-based", parameters |-> [k \in {"noise model"} |-> "speckle"]],
      [method |-> "Wavelet", parameters |-> [k \in {} |-> "0"]] }
UserMethods == {"Percentage", "Otsu", "Watershed"}
Ratios == {QZero, QOne}

\* no CellMech object is under construction
NoCellMech ==
    /\ ref_dir = {} /\ def_dir = {}
    /\ scene = [layout |-> "corner", F |-> <<<<1, 0, 0>>, <<0, 1, 0>>, <<0, 0, 1>>>>]
    /\ rigidInitial = FALSE /\ deformable = FALSE /\ saveFEA = FALSE /\ display = FALSE
    /\ InitFields
    /\ pc = "none"
    /\ todo = <<>>
    /\ trace = <<>>

\* Volume(vol_dir, ...) when __init__ has read the stack and made the
\* empty lists (lines 59-113): the arguments, the image, the blank label
\* image cells, and the locals of thresholdSegmentation
VolumeInit ==
    /\ NoCellMech
    /\ \E sg \in Segmentations, st \in Stains, sm \in SmoothingChoices, img \in Images,
          str \in BOOLEAN, enh \in BOOLEAN, fh \in BOOLEAN :
           volume = [segmentation |-> sg, _stain |-> st,
                     smoothing_method |-> sm.method, smoothing_parameters |-> sm.parameters,
                     stretch |-> str, enhance_edge |-> enh, fillholes |-> fh,
                     _img |-> img, cells |-> {},
                     pc |-> "init", exc |-> "none", running |-> "none",
                     method |-> "none", adaptive |-> FALSE, ratio |-> QZero,
                     simg |-> img, t |-> QZero, newt |-> QZero, seg |-> {},
                     largest |-> {}, bb |-> <<0, 0, 0, 0>>,
                     label_bounds |-> << <<0, 0>>, <<0, 0>> >>]

mechVars == <<inputVars, readVars, laterVars, ecm_strain, ecm_sel, pc, exc, todo, trace>>

VRaise(e) == volume' = [volume EXCEPT !.pc = "raised", !.exc = e]

\* __init__, lines 115-127: what the value of segmentation leads to.
\* geodesicSegmentation and edgeFreeSegmentation start with their call of
\* thresholdSegmentation (lines 497, 617); the class has no method
\* entropySegmentation
Dispatch(sg) ==
    CASE sg = "Threshold" ->
             [call |-> "thresholdSegmentation", method |-> "Percentage", ratio |-> Q(2, 5)]
      [] sg = "Entropy" -> Raised("AttributeError: entropySegmentation")
      [] sg = "Geodesic" ->
             [call |-> "thresholdSegmentation", method |-> "Percentage", ratio |-> Q(7, 10)]
      [] sg = "EdgeFree" ->
             [call |-> "thresholdSegmentation", method |-> "Percentage", ratio |-> Q(2, 5)]
      [] sg = "User" -> [call |-> "pass"]
      [] OTHER -> Raised("SystemExit: not a supported segmentation method")

\* __init__ at its choice of the segmentation
choose_segmentation ==
    /\ volume # None /\ volume.pc = "init"
    /\ LET d == Dispatch(volume.segmentation)
       IN  IF IsRaised(d) THEN VRaise(d.raised)
           ELSE IF d.call = "pass" THEN volume' = [volume EXCEPT !.pc = "write"]
           ELSE volume' = [volume EXCEPT !.pc = "threshold", !.running = volume.segmentation,
                                         !.method = d.method, !.adaptive = TRUE,
                                         !.ratio = d.ratio]
    /\ UNCHANGED mechVars

\* the user calls thresholdSegmentation on the constructed object
user_threshold ==
    /\ volume # None /\ volume.pc = "constructed" /\ volume.running = "none"
    /\ \E m \in UserMethods, a \in BOOLEAN, ra \in Ratios :
           volume' = [volume EXCEPT !.pc = "threshold", !.running = "user",
                                    !.method = m, !.adaptive = a, !.ratio = ra]
    /\ UNCHANGED mechVars

\* thresholdSegmentation, lines 335-336
threshold_enter ==
    /\ volume # None /\ volume.pc = "threshold"
    /\ IF volume.method \notin {"Percentage"} \cup HistogramMethods
       THEN VRaise("SystemExit: not a supported threshold method")
       ELSE volume' = [volume EXCEPT !.pc = "smooth"]
    /\ UNCHANGED mechVars

\* what a smoothing filter or the sharpening may return: an input of the
\* model, any of its images
FilterOutputs(img, method, enhance) ==
    IF method = "None" /\ ~enhance THEN {img} ELSE Images

\* simg = self.smoothRegion(roi), whole (lines 202-288): the parameters,
\* the filter, the sharpening, and the call of equalizeImage2D, a method
\* the class does not have
smoothRegion ==
    /\ volume # None /\ volume.pc = "smooth"
    /\ LET parameters == SmoothParameters(volume.smoothing_method, volume.smoothing_parameters)
       IN  IF IsRaised(parameters) THEN VRaise(parameters.raised)
           ELSE IF volume.stretch THEN VRaise("AttributeError: equalizeImage2D")
           ELSE \E out \in FilterOutputs(volume._img, volume.smoothing_method,
                                         volume.enhance_edge) :
                    volume' = [volume EXCEPT !.pc = "initial", !.simg = out]
    /\ UNCHANGED mechVars

\* the thresholds a histogram filter may find: an input of the model, any
\* intensity of the image
HistogramThresholds(img) == {img[p] : p \in Pixels}

\* the first threshold and binary image (lines 350-404); the loop starts
\* with newt = np.copy(t) (line 408)
InitialThreshold(simg, method, stain, ratio) ==
    IF method = "Percentage"
    THEN IF stain = "Foreground"
         THEN LET t == QMul(QInt(GetMaximum(simg)), ratio)
              IN  {[t |-> t, seg |-> BinaryThreshold(simg, t, Huge)]}
         ELSE IF stain = "Background"
         THEN LET t == QMul(QInt(GetMaximum(simg)), QSub(QOne, ratio))
              IN  {[t |-> t, seg |-> BinaryThreshold(simg, QZero, t)]}
         ELSE {Raised("SystemExit: unrecognized stain")}
    ELSE {[t |-> QInt(thr), seg |-> [pixels |-> HistogramThreshold(simg, thr, stain)]] :
              thr \in HistogramThresholds(simg)}

threshold_initial ==
    /\ volume # None /\ volume.pc = "initial"
    /\ \E first \in InitialThreshold(volume.simg, volume.method, volume._stain, volume.ratio) :
           IF IsRaised(first) THEN VRaise(first.raised)
           ELSE IF IsRaised(first.seg) THEN VRaise(first.seg.raised)
           ELSE volume' = [volume EXCEPT !.pc = IF volume.adaptive THEN "loop" ELSE "once",
                                         !.t = first.t, !.newt = first.t,
                                         !.seg = first.seg.pixels]
    /\ UNCHANGED mechVars

\* region_bnds of the region [0, 0, Size, Size]
region_bnds == << <<0, Size>>, <<0, Size>> >>

\* the loop from its top to the bounds of the largest object (lines 415-426)
adapt_measure ==
    /\ volume # None /\ volume.pc = "loop"
    /\ \E m \in {Measured(volume.seg, volume.fillholes)} :
           IF IsRaised(m) THEN VRaise(m.raised)
           ELSE volume' = [volume EXCEPT !.pc = "test", !.seg = m.seg,
                                         !.largest = m.r[m.label], !.bb = m.bb,
                                         !.label_bounds = m.label_bounds]
    /\ UNCHANGED mechVars

\* newt += 0.01*t, newt -= 0.01*t (lines 430, 433), step being 0.01*t; a
\* stain that is neither value changes nothing
NextThreshold(stain, step, newt) ==
    IF stain = "Foreground" THEN QAdd(newt, step)
    ELSE IF stain = "Background" THEN QSub(newt, step)
    ELSE newt

\* the binary image of the next turn of the loop, cut at int(newt) (lines
\* 431, 434)
Rethreshold(simg, stain, cut, seg) ==
    IF stain = "Foreground" THEN BinaryThreshold(simg, cut, Huge)
    ELSE IF stain = "Background" THEN BinaryThreshold(simg, QZero, cut)
    ELSE [pixels |-> seg]

\* the test of the loop and what follows it (lines 427-436)
adapt_adjust ==
    /\ volume # None /\ volume.pc = "test"
    /\ IF \/ AnyIntersect(region_bnds[1], volume.label_bounds[1])
          \/ AnyIntersect(region_bnds[2], volume.label_bounds[2])
       THEN \E step \in {QMul(Q(1, 100), volume.t)} :
            \E n \in {NextThreshold(volume._stain, step, volume.newt)} :
            \E cut \in {QInt(IntOf(n))} :
            \E s \in {Rethreshold(volume.simg, volume._stain, cut, volume.seg)} :
                IF IsRaised(s) THEN VRaise(s.raised)
                ELSE volume' = [volume EXCEPT !.pc = "loop", !.newt = n, !.seg = s.pixels]
       ELSE volume' = [volume EXCEPT !.pc = "label"]
    /\ UNCHANGED mechVars

\* without the loop: the largest object of the first binary image (lines
\* 439-447)
label_once ==
    /\ volume # None /\ volume.pc = "once"
    /\ LET m == Measured(volume.seg, volume.fillholes)
       IN  IF IsRaised(m) THEN VRaise(m.raised)
           ELSE volume' = [volume EXCEPT !.pc = "label", !.seg = m.seg,
                                         !.largest = m.r[m.label]]
    /\ UNCHANGED mechVars

\* the object goes into self.cells and thresholdSegmentation returns
\* (lines 449-462, with one region)
label_region ==
    /\ volume # None /\ volume.pc = "label"
    /\ volume' = [volume EXCEPT !.cells = volume.largest,
                                !.pc = CASE volume.running = "user" -> "returned"
                                         [] volume.running = "Threshold" -> "write"
                                         [] OTHER -> "contour"]
    /\ UNCHANGED mechVars

\* what the active contour may end with: an input of the model, the seed
\* or nothing
Contours(seed) == {seed, {}}

\* the rest of geodesicSegmentation and edgeFreeSegmentation: the contour
\* that starts from the seed in self.cells (lines 498-586, 618-697)
active_contour ==
    /\ volume # None /\ volume.pc = "contour"
    /\ \E newcells \in Contours(volume.cells) :
           volume' = [volume EXCEPT !.cells = newcells, !.pc = "write"]
    /\ UNCHANGED mechVars

\* __init__, its last lines: the output directory and stack.nii (129-134)
write_stack ==
    /\ volume # None /\ volume.pc = "write"
    /\ volume' = [volume EXCEPT !.pc = "constructed",
                                !.running = IF volume.segmentation = "User"
                                            THEN "none" ELSE volume.running]
    /\ UNCHANGED mechVars

VolumeNext ==
    \/ choose_segmentation
    \/ user_threshold
    \/ threshold_enter
    \/ smoothRegion
    \/ threshold_initial
    \/ adapt_measure
    \/ adapt_adjust
    \/ label_once
    \/ label_region
    \/ active_contour
    \/ write_stack

SpecVolume == VolumeInit /\ [][VolumeNext]_vars

----------------------------------------------------------------------------
(* The adaptive loop on its own: thresholdSegmentation, called by the user *)
(* with adaptive=True, from its first threshold on, over every stain,      *)
(* image, method and ratio of the model.                                   *)

LoopRatios == {QZero, Q(2, 5), Q(7, 10), QOne}

LoopInit ==
    /\ NoCellMech
    /\ \E st \in Stains, img \in Images, fh \in BOOLEAN, ra \in LoopRatios,
          m \in {"Percentage", "Otsu"} :
           volume = [segmentation |-> "User", _stain |-> st,
                     smoothing_method |-> "None", smoothing_parameters |-> [k \in {} |-> "0"],
                     stretch |-> FALSE, enhance_edge |-> FALSE, fillholes |-> fh,
                     _img |-> img, cells |-> {},
                     pc |-> "initial", exc |-> "none", running |-> "user",
                     method |-> m, adaptive |-> TRUE, ratio |-> ra,
                     simg |-> img, t |-> QZero, newt |-> QZero, seg |-> {},
                     largest |-> {}, bb |-> <<0, 0, 0, 0>>,
                     label_bounds |-> << <<0, 0>>, <<0, 0>> >>]

LoopNext ==
    \/ threshold_initial
    \/ adapt_measure
    \/ adapt_adjust
    \/ label_region

SpecLoop == LoopInit /\ [][LoopNext]_vars

\* the loop goes on while it has a next statement
FairLoop == SpecLoop /\ WF_vars(adapt_measure) /\ WF_vars(adapt_adjust)

----------------------------------------------------------------------------
(* Properties.                                                             *)

HasRun(step) == \E k \in DOMAIN trace : trace[k] = step
RunEnded == pc \in {"done", "raised"}
\* some STL file name is in one directory and not in the other
Mismatch == StlNames(ref_dir) # StlNames(def_dir)
\* TetGen failed on a file: a "tetgen" step that no "mass" step follows
MeshFailed ==
    \E k \in DOMAIN trace :
        trace[k] = "tetgen" /\ (k = Len(trace) \/ trace[k + 1] # "mass")

C2_PairingErrorFirst ==
    Mismatch => \A k \in DOMAIN trace : trace[k] \notin {"tetgen", "mass", "register"}

\* C3: a run over N >= 1 matched pairs whose meshing and registration
\* succeed completes, with N cell strains and N volumetric strains.
C3_RunCompletes ==
    (~Mismatch /\ StlNames(ref_dir) # {} /\ RunEnded /\ ~MeshFailed)
        => /\ pc = "done"
           /\ Len(cell_strains) = Cardinality(StlNames(ref_dir))
           /\ Len(vstrains) = Cardinality(StlNames(ref_dir))

\* C4: with fewer than 4 objects loaded, ecm_strain is None after
\* _getECMstrain (no zero tensor, no tensor with a nan).
C4_FewObjectsNoECM ==
    (HasRun("_getECMstrain") /\ Len(rcentroids) < 4) => ecm_strain = None

\* C4, its case: _getECMstrain has returned with one to three objects
C4_Witness ==
    /\ HasRun("_getECMstrain")
    /\ Len(rcentroids) \in 1..3
    /\ pc = "deform"
    /\ ecm_strain = None

\* C5: when the ECM strain estimation fails (ecm_strain left None, or an
\* exception of _getECMstrain), the run still computes the cell strain and
\* the volumetric strain of every object.
C5_ECMFailureNotFatal ==
    (RunEnded /\ HasRun("_getECMstrain") /\ ecm_strain = None /\ ~MeshFailed)
        => /\ Len(cell_strains) = Len(rsurfs)
           /\ Len(vstrains) = Len(rsurfs)

\* C6 as stated: the tissue-level strain is estimated only after the
\* per-object registration and cell-level strain step.
C6_CellBeforeTissue ==
    \A k \in DOMAIN trace :
        trace[k] = "_getECMstrain" => \E j \in 1..(k - 1) : trace[j] = "_deform"

\* the place of a step in the order of the amended C6
StepRank(e) ==
    CASE e \in {"_readstls", "load", "tetgen", "mass"} -> 1
      [] e = "_getECMstrain" -> 2
      [] e \in {"_deform", "register", "cellstrain"} -> 3
      [] OTHER -> 4

\* C6, amended: the steps are taken in the order surface loading with the
\* mass properties of each file right after its loading, then the
\* tissue-level (ECM) strain, then the per-object registration and
\* cell-level strain (_deform), then the displacement-field mapping; the
\* per-object step is never entered before the tissue-level one.
C6_OrderAmended ==
    /\ \A j, k \in DOMAIN trace : j < k => StepRank(trace[j]) <= StepRank(trace[k])
    /\ \A k \in DOMAIN trace : trace[k] = "tetgen" => (k > 1 /\ trace[k - 1] = "load")
    /\ \A k \in DOMAIN trace : trace[k] = "mass" => (k > 1 /\ trace[k - 1] = "tetgen")
    /\ HasRun("_deform") => HasRun("_getECMstrain")
    /\ pc = "deform" => HasRun("_getECMstrain")

\* C6, its case: files of both states were loaded and measured, the
\* tissue-level step ran and the per-object step was entered
C6_Witness ==
    /\ Len(rvols) >= 1 /\ Len(dvols) >= 1
    /\ HasRun("_getECMstrain")
    /\ HasRun("_deform")

\* C7: a failure of the tetrahedralization of one object does not end the
\* run: the other objects are still processed.
C7_MeshFailureIsolated ==
    MeshFailed =>
        /\ ~(pc = "raised" /\ exc = "MeshError")
        /\ RunEnded => Len(rsurfs) = Cardinality(StlNames(ref_dir))

IsSymmetric(E) == \A j, k \in Dim : E[j][k] = E[k][j]

\* C8: every stored strain tensor is symmetric: each entry of cell_strains
\* and ecm_strain, E[j][k] = E[k][j].
C8_Symmetric ==
    /\ \A i \in DOMAIN cell_strains : IsSymmetric(cell_strains[i])
    /\ ecm_strain # None => IsSymmetric(ecm_strain)

\* C8, its case: both tensors are stored and have off-diagonal entries
C8_Witness ==
    /\ cell_strains # <<>>
    /\ cell_strains[1][1][2] # QZero
    /\ ecm_strain # None
    /\ ecm_strain[1][2] # QZero

\* s times the identity, in rationals
Scalar(s) == <<<<s, QZero, QZero>>, <<QZero, s, QZero>>, <<QZero, QZero, s>>>>

\* C9: the strain of a fit that ends with the identity is the zero matrix,
\* and of one that ends with s * I it is 0.5 * (s^2 - 1) * I.
C9_IdentityAndDilation ==
    \A i \in DOMAIN cell_strains :
        /\ icp[i] = Eye3 => cell_strains[i] = ZeroTensor
        /\ \A s \in (-1)..(MaxF + 1) :
               icp[i] = Scalar(QInt(s)) => cell_strains[i] = Scalar(Q(s * s - 1, 2))

\* C9, its case: the strain of a dilation by two was stored
C9_Witness ==
    \E i \in DOMAIN cell_strains :
        icp[i] = Scalar(QInt(2)) /\ cell_strains[i] = Scalar(Q(3, 2))

\* the Green-Lagrange tensor 0.5 * (F^T F - I) of an integer matrix F
GreenLagrange(F) ==
    LET entry(j, k) ==
            Q(F[1][j] * F[1][k] + F[2][j] * F[2][k] + F[3][j] * F[3][k]
                  - (IF j = k THEN 1 ELSE 0), 2)
        row(j) == <<entry(j, 1), entry(j, 2), entry(j, 3)>>
    IN  T3(row)

\* the four reference centroids are not coplanar and the deformed
\* centroids are their images under x -> F x + t
AffineImage ==
    /\ Len(rcentroids) = 4 /\ Len(dcentroids) = 4
    /\ Det3(VSub(rcentroids[2], rcentroids[1]), VSub(rcentroids[3], rcentroids[1]),
            VSub(rcentroids[4], rcentroids[1])) # QZero
    /\ \A i \in 1..4 :
           dcentroids[i] = VAdd(MApply(MInt(scene.F), rcentroids[i]), VInt(Translation))

\* C10: for four non-coplanar reference centroids and deformed centroids
\* that are their images under an affine map with linear part F, the
\* tensor solved from the 6x6 system is 0.5 * (F^T F - I).
C10_ECMRoundTrip ==
    (AffineImage /\ HasRun("_getECMstrain")) => ecm_strain = GreenLagrange(scene.F)

\* C10, its case: the system was solved for a stretch with a shear
C10_Witness ==
    /\ AffineImage /\ HasRun("_getECMstrain")
    /\ scene.F = <<<<2, 1, 0>>, <<0, 1, 0>>, <<0, 0, 1>>>>
    /\ ecm_strain = <<<<<<3, 2>>, <<1, 1>>, <<0, 1>>>>,
                      <<<<1, 1>>, <<1, 2>>, <<0, 1>>>>,
                      <<<<0, 1>>, <<0, 1>>, <<0, 1>>>>>>

----------------------------------------------------------------------------
(* Properties of the registration, the stored collections and the mass     *)
(* properties.                                                             *)

InFit == pc = "deform" /\ loc # None /\ loc.stage = "fit"

\* C11: no fit of _deform starts an iteration after MaximumNumberOfIterations
\* of them, and _deform, once called, is left (by its return or by an
\* exception) for every object list and every course of the fits.
C11_DeformTerminates ==
    /\ [](InFit => loc.iters < MaxIterations)
    /\ [](pc = "deform" => <>(pc # "deform"))

\* C11, its case: with rigidInitial, both fits of every object ended and
\* _deform returned
C11_Witness ==
    /\ rigidInitial
    /\ pc \in {"registration", "save"}
    /\ Len(cell_strains) = MaxObjects
    /\ Len(rigidTransforms) = MaxObjects

\* C12: once _deform has ended, rigidTransforms holds one transform for
\* every object if rigidInitial is true and none if it is false.
C12_RigidPerObject ==
    (HasRun("_deform") /\ pc # "deform") =>
        IF rigidInitial
        THEN /\ Len(rigidTransforms) = Len(rcentroids)
             /\ \A i \in DOMAIN rigidTransforms : rigidTransforms[i] = RigidOf(i)
        ELSE rigidTransforms = <<>>

\* C13: no step of _deform, deformableRegistration, _poly2img or animate
\* changes a stored reference surface, deformed surface or reference mesh.
C13_StoredUnchanged ==
    [][(pc = "deform" \/ pc = "registration")
           => (rsurfs' = rsurfs /\ dsurfs' = dsurfs /\ rmeshes' = rmeshes)]_vars

\* C13, its case: the affine fit runs on the transformed copy of a
\* reference surface while rsurfs holds the surface as it was loaded
C13_Witness ==
    /\ InFit
    /\ loc.mode = "affine"
    /\ loc.source = Transformed(Surface("MATERIAL", loc.i), RigidOf(loc.i))
    /\ rsurfs[loc.i] = Surface("MATERIAL", loc.i)

\* the files of the results: the .vtu and .pkl files
ResultFiles == SelectSeq(written, LAMBDA f : f.name[1] \in {"cell.vtu", "cellFEA.pkl"})

C15_PackagePerObject ==
    (saveFEA /\ RunEnded /\ ~MeshFailed /\ rmeshes # <<>>) =>
        /\ Len(SelectSeq(written, LAMBDA f : f.name[1] = "cellFEA.pkl")) = Len(rmeshes)
        /\ \A k \in DOMAIN written :
               written[k].name[1] = "cellFEA.pkl" =>
                   Len(written[k].content.bc) = Len(_snodes[written[k].name[2] + 1])

Degenerate(nodes, e) == TetraVol(nodes, e) = QZero

\* the mesh without its elements of no volume
Stripped(mesh) ==
    MeshOf(SelectSeq(mesh.elements, LAMBDA e : ~Degenerate(mesh.points, e)))

HasDegenerate(mesh) == \E k \in DOMAIN mesh.elements : Degenerate(mesh.points, mesh.elements[k])

\* C17: for a mesh with an element of no volume and at least one with
\* volume, _make3Dmesh raises nothing and records the total volume, the
\* centroid and the inertia tensor it computes for the mesh without the
\* elements of no volume.
C17_DegenerateExcluded ==
    (loc # None /\ HasDegenerate(loc.mesh) /\ Stripped(loc.mesh).elements # <<>>) =>
        LET mp == Make3Dmesh(Stripped(loc.mesh), loc.err, TRUE)
            vols == rvols \o dvols
            cents == rcentroids \o dcentroids
        IN  /\ pc # "raised"
            /\ vols = <<mp.totalVol>>
            /\ cents = <<mp.centroid>>
            /\ loc.inertia = mp.inertia

\* C17, its case: a mesh of a tetrahedron of volume 1/6, one of no volume
\* and one of volume 1/3 in the plain order was measured
C17_Witness ==
    /\ loc # None
    /\ Len(loc.mesh.elements) = 2
    /\ loc.mesh.elements[1] = <<1, 2, 3, 7>>
    /\ loc.mesh.elements[2] = <<9, 10, 11, 12>>
    /\ rvols = <<Q(1, 3)>>

\* C18: every stored principal-axis radius is a non-negative number (a
\* root of a number that is not negative), never nan.
C18_RadiiNonNegative ==
    \A i \in DOMAIN (raxes \o daxes) :
        \A k \in Dim :
            LET r == (raxes \o daxes)[i][k]
            IN  r.root # NaN /\ QLeq(QZero, r.root)

\* C19: in a run whose reference directory holds no STL file, nothing
\* after the check of rsurfs is ever started: no ECM strain, no _deform,
\* no registration, no file written; the run ends in an exception.
C19_NoReferenceAborts ==
    StlNames(ref_dir) = {} =>
        /\ pc \in {"readref", "readdef", "check", "raised"}
        /\ ~HasRun("_getECMstrain") /\ ~HasRun("_deform") /\ ~HasRun("register")
        /\ ecm_strain = None /\ cell_strains = <<>> /\ vstrains = <<>>
        /\ cell_fields = <<>> /\ _bcs = <<>> /\ written = <<>>

\* C19, its case: deformed files were loaded and meshed, no reference
\* file was found, and the run ended with the exception of the check
C19_Witness ==
    /\ StlNames(ref_dir) = {}
    /\ dvols # <<>>
    /\ pc = "raised" /\ exc = "Exception"

IsPrefix(a, b) == Len(a) <= Len(b) /\ SubSeq(b, 1, Len(a)) = a

C21_VolumetricStrain ==
    \A i \in DOMAIN vstrains :
        /\ i <= Len(dvols) /\ i <= Len(rvols)
        /\ vstrains[i] = QSub(QDiv(dvols[i], rvols[i]), QOne)

\* C21, its case: two objects that shrank to an eighth of their volume,
\* whose fits ended with different matrices (the first with the identity,
\* whose determinant would give the strain 0), both have the strain -7/8
C21_Witness ==
    /\ Len(vstrains) = 2 /\ Len(icp) = 2
    /\ icp[1] = MInt(<<<<1, 0, 0>>, <<0, 1, 0>>, <<0, 0, 1>>>>)
    /\ icp[2] # icp[1]
    /\ vstrains[1] = vstrains[2]
    /\ vstrains[1] = Q(-7, 8)

\* C24: the cell _getECMstrain takes from the tessellation has a quality
\* whose distance to 1 no other cell's quality is below, and it is the
\* first cell of the tessellation with that distance.
C24_BestTetrahedron ==
    (ecm_sel # None /\ ecm_sel.cells # <<>>) =>
        LET b == ecm_sel.btet
            dev(k) == QAbs(QSub(ecm_sel.mq[k], QOne))
        IN  /\ b \in DOMAIN ecm_sel.cells
            /\ \A c \in DOMAIN ecm_sel.cells :
                   /\ QLeq(dev(b), dev(c))
                   /\ dev(c) = dev(b) => b <= c

\* C24, its case: of four cells rated 2, 3/2, 1/2 and 3/2, the second and
\* the third are equally near 1 (one above, one below), and the second is
\* taken
C24_Witness ==
    /\ ecm_sel # None
    /\ ecm_sel.mq = <<Q(2, 1), Q(3, 2), Q(1, 2), Q(3, 2)>>
    /\ ecm_sel.btet = 2
    /\ ecm_strain # ecm_strain_init

\* the orders of four vertices
Perms4 == {p \in [1..4 -> 1..4] : \A a, b \in 1..4 : p[a] = p[b] => a = b}

Permuted(e, p) == <<e[p[1]], e[p[2]], e[p[3]], e[p[4]]>>

\* C25: the total volume _make3Dmesh records for a mesh is the total volume
\* it computes for the same mesh with the vertices of any one element in
\* any other order.
C25_OrderOfVertices ==
    (loc # None /\ loc.inertia # None) =>
        \A j \in DOMAIN loc.mesh.elements, p \in Perms4 :
            rvols \o dvols =
                << QSum(TetraVols(loc.mesh.points,
                                  [loc.mesh.elements EXCEPT ![j] = Permuted(@, p)])) >>

\* C25, its case: a mesh of two tetrahedra of volume 1/6 whose vertex
\* orders have opposite orientations was measured as 1/3
C25_Witness ==
    /\ loc # None
    /\ loc.mesh.elements = << <<1, 2, 3, 4>>, <<6, 5, 7, 8>> >>
    /\ QLess(SignedVol(loc.mesh.points, <<1, 2, 3, 4>>), QZero)
    /\ QLess(QZero, SignedVol(loc.mesh.points, <<6, 5, 7, 8>>))
    /\ rvols = <<Q(1, 3)>>

\* C26: when the eigenvalues of the inertia tensor, sorted ascending, are
\* not negative, each stored radius is the root of 2.5 * (the sum of the
\* other two eigenvalues - this eigenvalue) / volume, a number, and
\* r_major >= r_middle >= r_minor.
C26_RadiiFormulaAndOrder ==
    (loc # None /\ loc.inertia # None /\ MFinite(loc.inertia)) =>
        LET w == eigh(loc.inertia, loc.err, TRUE)
            V == (rvols \o dvols)[1]
            r == (raxes \o daxes)[1]
            under(a, b, c) == QDiv(QMul(Q(5, 2), QSub(QAdd(a, b), c)), V)
        IN  (\A k \in Dim : QLeq(QZero, w[k])) =>
                /\ \A k \in Dim : r[k].root # NaN
                /\ r[1].root = under(w[2], w[3], w[1])
                /\ r[2].root = under(w[1], w[3], w[2])
                /\ r[3].root = under(w[1], w[2], w[3])
                /\ QLeq(r[2].root, r[1].root) /\ QLeq(r[3].root, r[2].root)

\* the STL files of a directory in the order _readstls takes them
StlFiles(d) == SelectSeq(sorted(d), IsStl)

\* C29: when _readstls returns, the eight lists of the reference state have
\* one entry for every reference STL file and the four lists of the
\* deformed state one for every deformed STL file, and entry i of every
\* list is the one of file i of the sorted directory.
C29_ListsAligned ==
    [][(pc = "readdef" /\ pc' = "check") =>
          LET rf == StlFiles(ref_dir)
              df == StlFiles(def_dir)
          IN  /\ Len(rsurfs') = Len(rf) /\ Len(rmeshes') = Len(rf)
              /\ Len(rcentroids') = Len(rf) /\ Len(rvols') = Len(rf)
              /\ Len(raxes') = Len(rf) /\ Len(_snodes') = Len(rf)
              /\ Len(_nodes') = Len(rf) /\ Len(_elements') = Len(rf)
              /\ Len(dsurfs') = Len(df) /\ Len(dcentroids') = Len(df)
              /\ Len(dvols') = Len(df) /\ Len(daxes') = Len(df)
              /\ \A i \in DOMAIN rf :
                     \E mp \in {MassProperties(TetGenMesh(scene, "MATERIAL", rf[i]))} :
                         /\ rsurfs'[i] = Surface("MATERIAL", rf[i])
                         /\ rmeshes'[i] = VtkMesh(mp)
                         /\ rcentroids'[i] = mp.centroid /\ rvols'[i] = mp.totalVol
                         /\ raxes'[i] = mp.axes /\ _snodes'[i] = mp.s_nodes
                         /\ _nodes'[i] = mp.nodes /\ _elements'[i] = mp.elements
              /\ \A i \in DOMAIN df :
                     \E mp \in {MassProperties(TetGenMesh(scene, "SPATIAL", df[i]))} :
                         /\ dsurfs'[i] = Surface("SPATIAL", df[i])
                         /\ dcentroids'[i] = mp.centroid /\ dvols'[i] = mp.totalVol
                         /\ daxes'[i] = mp.axes]_vars

\* C29, its case: _readstls returned after three reference files and two
\* deformed files, with a file that is no STL file in each directory
C29_Witness ==
    /\ pc = "check"
    /\ 0 \in ref_dir /\ 0 \in def_dir
    /\ Len(rsurfs) = 3 /\ Len(dsurfs) = 2

----------------------------------------------------------------------------
(* Properties of the Volume class.                                         *)

\* C22: for every value of segmentation the constructor runs the named
\* segmentation ('Threshold', 'Geodesic', 'EdgeFree'), does nothing
\* ('User'), or ends with the exit "is not a supported segmentation
\* method"; no value leads to another failure
C22_SegmentationDispatch ==
    [][(volume # None /\ volume.pc = "init" /\ volume'.pc # "init")
          => \/ /\ volume.segmentation \in {"Threshold", "Geodesic", "EdgeFree"}
                /\ volume'.pc = "threshold" /\ volume'.running = volume.segmentation
             \/ /\ volume.segmentation = "User"
                /\ volume'.pc = "write" /\ volume'.running = "none"
             \/ volume'.exc = "SystemExit: not a supported segmentation method"]_vars

\* C23: when the adaptive loop of thresholdSegmentation is left by its
\* break, the bounding box of the largest object touches neither the lower
\* nor the upper x or y boundary of the region
C23_ExitClearOfBoundary ==
    (volume # None /\ volume.pc = "label" /\ volume.adaptive)
        => /\ volume.bb[1] # 0 /\ volume.bb[1] + volume.bb[3] # Size
           /\ volume.bb[2] # 0 /\ volume.bb[2] + volume.bb[4] # Size

\* C27: if smoothing_parameters has a key that is not a parameter of the
\* smoothing method, smoothRegion ends with the exit "is not a parameter
\* of"
C27_UnknownKeyExits ==
    [][(/\ volume # None /\ volume.pc = "smooth" /\ volume'.pc # "smooth"
        /\ volume.smoothing_method \in SmoothingMethods
        /\ \E p \in DOMAIN volume.smoothing_parameters :
               p \notin DOMAIN DefaultParameters(volume.smoothing_method))
          => volume'.exc = "SystemExit: not a parameter"]_vars

\* C28: the adaptive loop of thresholdSegmentation always ends, by leaving
\* the loop or by an error, for every region, stain and first threshold,
\* t = 0 included
C28_LoopTerminates ==
    [](volume # None /\ volume.pc \in {"loop", "test"}
          => <>(volume.pc \notin {"loop", "test"}))

====
